---------------------------- MODULE Spec2Model ----------------------------
(***************************************************************************)
(* Relevance and recency-weighted retrieval engine of ai-cover-letter      *)
(* (app/services/rag_service.py, app/services/filename_parser.py).         *)
(*                                                                         *)
(* Texts are strings; Python's text[i] is Ch(text, i + 1).  Python floats  *)
(* are exact rationals plus the one non-number float("nan"); rounding is   *)
(* not modelled.  Timestamps are counted in ticks, TicksPerDay to the day. *)
(***************************************************************************)
EXTENDS Integers, Sequences, FiniteSets, TLC

VARIABLES
    environ,          \* os.environ at construction: variable name -> setting
    svc,              \* the RAGService instance fields set by __init__
    now,              \* datetime.now(), in ticks
    call,             \* the last operation of the service and its arguments
    ret,              \* what that operation returned (or raised)
    embedding_cache,  \* RAGService._embedding_cache, in insertion order
    history,          \* the create_embeddings calls made so far, in order
    threads,          \* the position and locals of each request thread
    documents         \* the rows of the documents table

wvars == <<environ, svc, now, call, ret, embedding_cache, history, threads, documents>>

-----------------------------------------------------------------------------
(* Characters and small helpers                                            *)

\* the character at position i (1-based), "" beyond either end
Ch(s, i) == IF i \in 1..Len(s) THEN SubSeq(s, i, i) ELSE ""

Digits == {"0", "1", "2", "3", "4", "5", "6", "7", "8", "9"}

DigitVal(c) ==
    CASE c = "0" -> 0 [] c = "1" -> 1 [] c = "2" -> 2 [] c = "3" -> 3
      [] c = "4" -> 4 [] c = "5" -> 5 [] c = "6" -> 6 [] c = "7" -> 7
      [] c = "8" -> 8 [] c = "9" -> 9

AllDigits(s) == \A i \in 1..Len(s) : Ch(s, i) \in Digits

RECURSIVE ToInt(_)
\* int(s) of a non-empty string of digits
ToInt(s) ==
    IF Len(s) = 0 THEN 0
    ELSE 10 * ToInt(SubSeq(s, 1, Len(s) - 1)) + DigitVal(Ch(s, Len(s)))

Abs(a) == IF a < 0 THEN -a ELSE a

RECURSIVE GCD(_, _)
GCD(a, b) == IF b = 0 THEN a ELSE GCD(b, a % b)

-----------------------------------------------------------------------------
(* Python floats: a rational n/d in lowest terms with d > 0, or NaN.       *)

NaN == [nan |-> TRUE, n |-> 0, d |-> 1]

Rat(num, den) ==
    LET g == GCD(Abs(num), den)
    IN  [nan |-> FALSE, n |-> num \div g, d |-> den \div g]

F(i) == Rat(i, 1)

\* the numerator of a over the least common denominator of a and b
Scaled(a, b) == a.n * (b.d \div GCD(a.d, b.d))

FAdd(a, b) ==
    IF a.nan \/ b.nan THEN NaN
    ELSE Rat(Scaled(a, b) + Scaled(b, a), (a.d \div GCD(a.d, b.d)) * b.d)

FSub(a, b) ==
    IF a.nan \/ b.nan THEN NaN
    ELSE Rat(Scaled(a, b) - Scaled(b, a), (a.d \div GCD(a.d, b.d)) * b.d)

FMul(a, b) ==
    IF a.nan \/ b.nan THEN NaN
    ELSE Rat((a.n \div GCD(Abs(a.n), b.d)) * (b.n \div GCD(Abs(b.n), a.d)),
             (a.d \div GCD(Abs(b.n), a.d)) * (b.d \div GCD(Abs(a.n), b.d)))

\* a / b for b # 0
FDiv(a, b) ==
    IF a.nan \/ b.nan THEN NaN
    ELSE IF b.n < 0 THEN Rat(-(a.n * b.d), a.d * (-b.n))
    ELSE Rat(a.n * b.d, a.d * b.n)

\* comparisons: each is false when an operand is NaN
FLt(a, b) == ~a.nan /\ ~b.nan /\ Scaled(a, b) < Scaled(b, a)

FLe(a, b) == ~a.nan /\ ~b.nan /\ Scaled(a, b) <= Scaled(b, a)

FGt(a, b) == FLt(b, a)

FGe(a, b) == FLe(b, a)

FEq(a, b) == ~a.nan /\ ~b.nan /\ a.n = b.n /\ a.d = b.d

\* Python's max(a, b) and min(a, b): the first argument unless the second
\* compares strictly beyond it
PyMax(a, b) == IF FGt(b, a) THEN b ELSE a

PyMin(a, b) == IF FLt(b, a) THEN b ELSE a

-----------------------------------------------------------------------------
(* datetime: a point in time is a number of ticks; a date is its midnight. *)

TicksPerDay == 2

None == [some |-> FALSE, t |-> 0]

Some(t) == [some |-> TRUE, t |-> t]

IsLeap(y) == y % 4 = 0 /\ (y % 100 # 0 \/ y % 400 = 0)

DaysInMonth(y, m) ==
    IF m = 2 THEN (IF IsLeap(y) THEN 29 ELSE 28)
    ELSE IF m \in {4, 6, 9, 11} THEN 30 ELSE 31

DaysBeforeMonth(y, m) ==
    LET cum == <<0, 31, 59, 90, 120, 151, 181, 212, 243, 273, 304, 334>>
    IN  cum[m] + (IF m > 2 /\ IsLeap(y) THEN 1 ELSE 0)

\* datetime(y, m, d) raises ValueError unless this holds
ValidDate(y, m, d) ==
    /\ y \in 1..9999
    /\ m \in 1..12
    /\ d >= 1 /\ d <= DaysInMonth(y, m)

\* date.toordinal(): days since 0001-01-01, that day being 1
Ordinal(y, m, d) ==
    (y - 1) * 365 + (y - 1) \div 4 - (y - 1) \div 100 + (y - 1) \div 400
        + DaysBeforeMonth(y, m) + d

\* datetime(y, m, d) of a valid date, in ticks
DateTime(y, m, d) == Ordinal(y, m, d) * TicksPerDay

\* (a - b).days: timedelta normalises to a whole number of days, rounding
\* towards minus infinity
DaysBetween(a, b) == (a - b) \div TicksPerDay

-----------------------------------------------------------------------------
(* FilenameParser                                                          *)

\* the least element of a set of positions, 0 for the empty set
FirstOf(S) == IF S = {} THEN 0 ELSE CHOOSE i \in S : \A j \in S : i <= j

\* the greatest element of a set of positions, 0 for the empty set
LastOf(S) == IF S = {} THEN 0 ELSE CHOOSE i \in S : \A j \in S : i >= j

\* the positions of character c in s
Positions(s, c) == {i \in 1..Len(s) : Ch(s, i) = c}

RECURSIVE Split(_, _)
\* s.split(c) for a one-character separator c
Split(s, c) ==
    LET SplitAt(k) ==
            IF k = 0 THEN <<s>>
            ELSE <<SubSeq(s, 1, k - 1)>> \o Split(SubSeq(s, k + 1, Len(s)), c)
    IN  SplitAt(FirstOf(Positions(s, c)))

\* os.path.splitext(p)[0]
SplitExtRoot(p) ==
    LET SplitExtAt(sepIndex, dotIndex) ==
            IF dotIndex > sepIndex
               /\ \E i \in (sepIndex + 1)..(dotIndex - 1) : Ch(p, i) # "."
            THEN SubSeq(p, 1, dotIndex - 1)
            ELSE p
    IN  SplitExtAt(LastOf(Positions(p, "/")), LastOf(Positions(p, ".")))

\* datetime(y, m, d), None for the ValueError of a date that does not exist
MakeDate(y, m, d) == IF ValidDate(y, m, d) THEN Some(DateTime(y, m, d)) ELSE None

\* datetime.strptime(date_str, fmt) for the formats of _parse_date; fmt is
\* the order of the three fields and the separator; None for ValueError
Strptime(date_str, fmt) ==
    LET \* the directives %Y, %m and %d on one field
        FieldY(f) == Len(f) = 4 /\ AllDigits(f)
        FieldM(f) == Len(f) \in {1, 2} /\ AllDigits(f) /\ ToInt(f) \in 1..12
        FieldD(f) ==
            \/ Len(f) \in {1, 2} /\ AllDigits(f) /\ ToInt(f) \in 1..31
            \/ Len(f) = 2 /\ Ch(f, 1) = " " /\ Ch(f, 2) \in Digits \ {"0"}
        StripSpace(f) ==
            IF Len(f) > 0 /\ Ch(f, 1) = " " THEN SubSeq(f, 2, Len(f)) ELSE f
        StrptimeYMD(fy, fm, fd) ==
            IF FieldY(fy) /\ FieldM(fm) /\ FieldD(fd)
            THEN MakeDate(ToInt(fy), ToInt(fm), ToInt(StripSpace(fd)))
            ELSE None
        StrptimeFields(fields) ==
            IF Len(fields) # 3 THEN None
            ELSE StrptimeYMD(fields[fmt.order.y], fields[fmt.order.m], fields[fmt.order.d])
    IN  StrptimeFields(Split(date_str, fmt.sep))

\* the formats of _parse_date, in its order: %Y-%m-%d, %Y-%m-%d, %d-%m-%Y,
\* %m-%d-%Y, %Y/%m/%d, %d/%m/%Y, %m/%d/%Y
date_formats ==
    LET YMD == [y |-> 1, m |-> 2, d |-> 3]
        DMY == [d |-> 1, m |-> 2, y |-> 3]
        MDY == [m |-> 1, d |-> 2, y |-> 3]
    IN  << [order |-> YMD, sep |-> "-"], [order |-> YMD, sep |-> "-"],
           [order |-> DMY, sep |-> "-"], [order |-> MDY, sep |-> "-"],
           [order |-> YMD, sep |-> "/"], [order |-> DMY, sep |-> "/"],
           [order |-> MDY, sep |-> "/"] >>

RECURSIVE parse_date_from(_, _, _)
\* the loop of _parse_date from format i on: the first format that parses
parse_date_from(date_str, formats, i) ==
    LET ParsedOrNext(parsed) ==
            IF parsed.some THEN parsed ELSE parse_date_from(date_str, formats, i + 1)
    IN  IF i > Len(formats) THEN None
        ELSE ParsedOrNext(Strptime(date_str, formats[i]))

\* FilenameParser._parse_date
parse_date(date_str) == parse_date_from(date_str, date_formats, 1)

\* FilenameParser.parse_filename, the 'date' and 'is_valid_format' entries
parse_filename(filename) ==
    LET ParsedWith(date) == [date |-> date, is_valid_format |-> date.some]
        ParseParts(parts) ==
            IF Len(parts) < 2 THEN [date |-> None, is_valid_format |-> FALSE]
            ELSE ParsedWith(parse_date(parts[1]))
    IN  ParseParts(Split(SplitExtRoot(filename), "_"))

extract_date_from_filename(filename) == parse_filename(filename).date

-----------------------------------------------------------------------------
(* RAGService._extract_date_from_content                                   *)

IsSep(c) == c \in {"-", "/"}

\* \d{1,2} at position i: the number of digits the greedy group takes
Digits12(s, i) ==
    IF Ch(s, i) \notin Digits THEN 0 ELSE IF Ch(s, i + 1) \in Digits THEN 2 ELSE 1

\* \d{4} at position i
Digits4(s, i) == \A j \in i..(i + 3) : Ch(s, j) \in Digits

\* (\d{4})[-/](\d{1,2})[-/](\d{1,2}) matches at position i
MatchYearFirst(s, i) ==
    LET SepDigits(j, n2) == n2 > 0 /\ IsSep(Ch(s, j + n2)) /\ Digits12(s, j + n2 + 1) > 0
    IN  Digits4(s, i) /\ IsSep(Ch(s, i + 4)) /\ SepDigits(i + 5, Digits12(s, i + 5))

\* (\d{1,2})[-/](\d{1,2})[-/](\d{4}) matches at position i
MatchYearLast(s, i) ==
    LET SepYear(j) == IsSep(Ch(s, j)) /\ Digits4(s, j + 1)
        SepDigitsSepYear(j, n2) == IsSep(Ch(s, j)) /\ n2 > 0 /\ SepYear(j + 1 + n2)
        YearLastTail(n1) ==
            n1 > 0 /\ SepDigitsSepYear(i + n1, Digits12(s, i + n1 + 1))
    IN  YearLastTail(Digits12(s, i))

\* int() of the groups (\d{k1}), (\d{k2}) and (\d{k3}) of a match at i
Groups(s, i, k1, k2, k3) ==
    << ToInt(SubSeq(s, i, i + k1 - 1)),
       ToInt(SubSeq(s, i + k1 + 1, i + k1 + k2)),
       ToInt(SubSeq(s, i + k1 + k2 + 2, i + k1 + k2 + k3 + 1)) >>

GroupsYearFirst(s, i) ==
    LET GroupsYearFirstAt(n2) == Groups(s, i, 4, n2, Digits12(s, i + 6 + n2))
    IN  GroupsYearFirstAt(Digits12(s, i + 5))

GroupsYearLast(s, i) ==
    LET GroupsYearLastAt(n1) == Groups(s, i, n1, Digits12(s, i + n1 + 1), 4)
    IN  GroupsYearLastAt(Digits12(s, i))

\* re.search: the leftmost position with a match, 0 when there is none
SearchYearFirst(s) == FirstOf({i \in 1..Len(s) : MatchYearFirst(s, i)})

SearchYearLast(s) == FirstOf({i \in 1..Len(s) : MatchYearLast(s, i)})

\* the first pattern is searched over the whole content before the second;
\* a match of the first pattern that is no calendar date moves on to the
\* second pattern, whose match is tried as DD-MM-YYYY, then as MM-DD-YYYY
extract_date_from_content(content) ==
    LET YearLastDate(parts) ==
            IF ValidDate(parts[3], parts[2], parts[1])
            THEN Some(DateTime(parts[3], parts[2], parts[1]))
            ELSE MakeDate(parts[3], parts[1], parts[2])
        YearLastAt(i2) ==
            IF i2 > 0 THEN YearLastDate(GroupsYearLast(content, i2)) ELSE None
        YearFirstDate(parts) == MakeDate(parts[1], parts[2], parts[3])
        YearFirstAt(i1) ==
            IF i1 > 0 THEN YearFirstDate(GroupsYearFirst(content, i1)) ELSE None
        FirstOrSecond(first) ==
            IF first.some THEN first ELSE YearLastAt(SearchYearLast(content))
    IN  FirstOrSecond(YearFirstAt(SearchYearFirst(content)))

-----------------------------------------------------------------------------
(* str methods and the float() and int() constructors on strings           *)

\* c.lower() for one character
LowerCh(c) ==
    LET UpperAlpha == "ABCDEFGHIJKLMNOPQRSTUVWXYZ"
        LowerAlpha == "abcdefghijklmnopqrstuvwxyz"
        LowerAt(k) == IF k = 0 THEN c ELSE Ch(LowerAlpha, k)
    IN  LowerAt(FirstOf(Positions(UpperAlpha, c)))

RECURSIVE Lower(_)
\* s.lower()
Lower(s) ==
    IF Len(s) = 0 THEN ""
    ELSE IF Len(s) = 1 THEN LowerCh(s)
    ELSE Lower(SubSeq(s, 1, Len(s) \div 2)) \o Lower(SubSeq(s, Len(s) \div 2 + 1, Len(s)))

\* the whitespace of str.strip() and str.split()
IsSpace(c) == c \in {" ", "\t", "\n", "\r"}

\* s.strip()
Strip(s) ==
    LET StripTo(S) == IF S = {} THEN "" ELSE SubSeq(s, FirstOf(S), LastOf(S))
    IN  StripTo({i \in 1..Len(s) : ~IsSpace(Ch(s, i))})

RECURSIVE Pow10(_)
Pow10(k) == IF k = 0 THEN 1 ELSE 10 * Pow10(k - 1)

\* a numeric literal without its sign
Unsigned(t) == IF Ch(t, 1) \in {"+", "-"} THEN SubSeq(t, 2, Len(t)) ELSE t

SignOf(t) == IF Ch(t, 1) = "-" THEN -1 ELSE 1

\* float(s) raises ValueError unless this holds: nan, or digits, digits.digits,
\* digits. or .digits, with a sign or without (literals with an exponent or
\* an infinity are not among the settings considered)
FloatParses(s) ==
    LET IsDecimalParts(parts) ==
            /\ Len(parts) \in {1, 2}
            /\ \A i \in 1..Len(parts) : AllDigits(parts[i])
            /\ \E i \in 1..Len(parts) : Len(parts[i]) > 0
        IsFloatBody(u) == Lower(u) = "nan" \/ IsDecimalParts(Split(u, "."))
    IN  IsFloatBody(Unsigned(Strip(s)))

\* float(s) for a string that parses
PyFloat(s) ==
    LET DecimalValue(sign, whole, frac) ==
            Rat(sign * ToInt(whole \o frac), Pow10(Len(frac)))
        DecimalOf(sign, parts) ==
            DecimalValue(sign, parts[1], IF Len(parts) = 2 THEN parts[2] ELSE "")
        FloatBody(sign, u) ==
            IF Lower(u) = "nan" THEN NaN ELSE DecimalOf(sign, Split(u, "."))
        FloatOfStripped(t) == FloatBody(SignOf(t), Unsigned(t))
    IN  FloatOfStripped(Strip(s))

\* int(s) raises ValueError unless this holds
IntParses(s) ==
    LET IsIntBody(u) == Len(u) > 0 /\ AllDigits(u)
    IN  IsIntBody(Unsigned(Strip(s)))

\* int(s) for a string that parses
PyInt(s) ==
    LET IntOfStripped(t) == SignOf(t) * ToInt(Unsigned(t))
    IN  IntOfStripped(Strip(s))

-----------------------------------------------------------------------------
(* RAGService.__init__                                                     *)

EnvNames ==
    {"DOCUMENT_BASE_WEIGHT", "DOCUMENT_RECENCY_PERIOD_DAYS",
     "DOCUMENT_MIN_WEIGHT_MULTIPLIER", "DOCUMENT_RECENCY_WEIGHTING_ENABLED",
     "CV_WEIGHT_MULTIPLIER", "COVER_LETTER_WEIGHT_MULTIPLIER",
     "LINKEDIN_WEIGHT_MULTIPLIER", "OTHER_DOCUMENT_WEIGHT_MULTIPLIER"}

Unset == [set |-> FALSE, s |-> ""]

Set(s) == [set |-> TRUE, s |-> s]

\* os.getenv(name, default)
getenv(env, name, default) == IF env[name].set THEN env[name].s ELSE default

TypeKeys == {"cv", "cover_letter", "linkedin", "other"}

default_type_weights ==
    [k \in TypeKeys |->
        CASE k = "cv" -> Rat(20, 10) [] k = "cover_letter" -> Rat(18, 10)
          [] k = "linkedin" -> Rat(12, 10) [] k = "other" -> Rat(8, 10)]

TypeEnvName(k) ==
    CASE k = "cv" -> "CV_WEIGHT_MULTIPLIER"
      [] k = "cover_letter" -> "COVER_LETTER_WEIGHT_MULTIPLIER"
      [] k = "linkedin" -> "LINKEDIN_WEIGHT_MULTIPLIER"
      [] k = "other" -> "OTHER_DOCUMENT_WEIGHT_MULTIPLIER"

TypeDefaultStr(k) ==
    CASE k = "cv" -> "2.0" [] k = "cover_letter" -> "1.8"
      [] k = "linkedin" -> "1.2" [] k = "other" -> "0.8"

\* x unless the test 'x <= 0' holds, which raises ValueError
PositiveOr(x, default) == IF FLe(x, F(0)) THEN default ELSE x

\* lines 36 to 42: 1.0 for a setting that float() or the test rejects
init_base_weight(env) ==
    LET BaseWeightOf(s) ==
            IF FloatParses(s) THEN PositiveOr(PyFloat(s), F(1)) ELSE F(1)
    IN  BaseWeightOf(getenv(env, "DOCUMENT_BASE_WEIGHT", "1.0"))

\* lines 44 to 51: 365 for a setting that int() or the test '<= 0' rejects
init_recency_period_days(env) ==
    LET PositiveIntOr(k, default) == IF k <= 0 THEN default ELSE k
        RecencyPeriodOf(s) ==
            IF IntParses(s) THEN PositiveIntOr(PyInt(s), 365) ELSE 365
    IN  RecencyPeriodOf(getenv(env, "DOCUMENT_RECENCY_PERIOD_DAYS", "365"))

\* lines 53 to 59: 0.1 for a setting that float() or the test
\* 'x <= 0 or x > 1' rejects
init_min_weight_multiplier(env) ==
    LET FractionOr(x, default) ==
            IF FLe(x, F(0)) \/ FGt(x, F(1)) THEN default ELSE x
        MinMultiplierOf(s) ==
            IF FloatParses(s) THEN FractionOr(PyFloat(s), Rat(1, 10)) ELSE Rat(1, 10)
    IN  MinMultiplierOf(getenv(env, "DOCUMENT_MIN_WEIGHT_MULTIPLIER", "0.1"))

init_recency_weighting_enabled(env) ==
    Lower(getenv(env, "DOCUMENT_RECENCY_WEIGHTING_ENABLED", "true")) = "true"

\* lines 64 to 78: a float() that raises for any of the four settings loses
\* all four overrides; a weight that parses but is not positive becomes 1.0
init_document_type_weights(env) ==
    LET TypeWeightsOf(settings) ==
            IF \E k \in TypeKeys : ~FloatParses(settings[k])
            THEN default_type_weights
            ELSE [k \in TypeKeys |-> PositiveOr(PyFloat(settings[k]), F(1))]
    IN  TypeWeightsOf([k \in TypeKeys |-> getenv(env, TypeEnvName(k), TypeDefaultStr(k))])

\* the instance after __init__; model_loaded tells whether SentenceTransformer
\* could be constructed
RAGService(env, model_loaded) ==
    [embedding_model |-> model_loaded,
     base_weight |-> init_base_weight(env),
     recency_period_days |-> init_recency_period_days(env),
     min_weight_multiplier |-> init_min_weight_multiplier(env),
     recency_weighting_enabled |-> init_recency_weighting_enabled(env),
     document_type_weights |-> init_document_type_weights(env)]

-----------------------------------------------------------------------------
(* Document weight                                                         *)

\* a lookup that takes the 'other' weight for every type
other_weight_of(self, doc_type) == self.document_type_weights["other"]

\* self.document_type_weights.get(doc_type, self.document_type_weights['other'])
type_weight_of(self, doc_type) ==
    IF doc_type \in TypeKeys THEN self.document_type_weights[doc_type]
    ELSE self.document_type_weights["other"]

get_document_type_weight(self, document_type) ==
    type_weight_of(self, Lower(document_type))

\* the decay without its floor
linear_decay(self, days_since_document) ==
    FSub(F(1), Rat(days_since_document, self.recency_period_days))

\* max(self.min_weight_multiplier, 1.0 - (days_since_document / self.recency_period_days))
recency_of(self, days_since_document) ==
    PyMax(self.min_weight_multiplier,
          FSub(F(1), Rat(days_since_document, self.recency_period_days)))

\* a precedence that looks at the content before the filename
content_first_date(document) ==
    LET DateOrUpload(filename_date) ==
            IF filename_date.some THEN filename_date ELSE document.uploaded_at
        DateOrFilename(content_date) ==
            IF content_date.some THEN content_date
            ELSE DateOrUpload(extract_date_from_filename(document.filename))
    IN  DateOrFilename(extract_date_from_content(document.content))

\* the date of the document: from the filename, else from the content, else
\* the upload date, which can be None
document_date(document) ==
    LET DateOrUpload(content_date) ==
            IF content_date.some THEN content_date ELSE document.uploaded_at
        DateOrContent(filename_date) ==
            IF filename_date.some THEN filename_date
            ELSE DateOrUpload(extract_date_from_content(document.content))
    IN  DateOrContent(extract_date_from_filename(document.filename))

\* the days_since_document of calculate_document_weight:
\* (datetime.now() - date).days, None where the subtraction raises TypeError
weight_days(document, clock) ==
    LET DaysSince(date) ==
            IF date.some THEN Some(DaysBetween(clock, date.t)) ELSE None
    IN  DaysSince(document_date(document))

Returned(v) == [exc |-> "", val |-> v]

Raised(e) == [exc |-> e, val |-> ""]

\* calculate_document_weight: base_weight * type_weight * recency_multiplier;
\* document.manual_weight is never read
calculate_document_weight(self, document, clock) ==
    LET final_weight(type_weight, recency_multiplier) ==
            Returned(FMul(FMul(self.base_weight, type_weight), recency_multiplier))
        WeightAt(type_weight, days) ==
            IF ~self.recency_weighting_enabled THEN final_weight(type_weight, F(1))
            ELSE IF ~days.some THEN Raised("TypeError")
            ELSE final_weight(type_weight, recency_of(self, days.t))
    IN  WeightAt(type_weight_of(self, Lower(document.document_type)),
                 weight_days(document, clock))

-----------------------------------------------------------------------------
(* Relevance scoring                                                       *)

RECURSIVE Words(_)
\* s.split(): the maximal runs of non-whitespace characters, found by
\* halving the string at the whitespace character nearest to its middle
Words(s) ==
    LET MiddleOf(S) ==
            CHOOSE i \in S : \A j \in S : Abs(2 * i - Len(s)) <= Abs(2 * j - Len(s))
        WordsAround(k) == Words(SubSeq(s, 1, k - 1)) \o Words(SubSeq(s, k + 1, Len(s)))
        WordsBetween(spaces) ==
            IF spaces # {} THEN WordsAround(MiddleOf(spaces))
            ELSE IF Len(s) = 0 THEN << >> ELSE <<s>>
    IN  WordsBetween({i \in 1..Len(s) : IsSpace(Ch(s, i))})

IsTerminator(c) == c \in {".", "!", "?"}

RECURSIVE SplitSentences(_)
\* re.split(r'[.!?]+', s)
SplitSentences(s) ==
    LET \* the first position from k on that holds no terminator
        AfterTerminators(k) ==
            FirstOf({i \in k..(Len(s) + 1) : ~IsTerminator(Ch(s, i))})
        SplitSentencesAt(k) ==
            IF k = 0 THEN <<s>>
            ELSE <<SubSeq(s, 1, k - 1)>>
                   \o SplitSentences(SubSeq(s, AfterTerminators(k), Len(s)))
    IN  SplitSentencesAt(FirstOf({i \in 1..Len(s) : IsTerminator(Ch(s, i))}))

SeqToSet(q) == {q[i] : i \in 1..Len(q)}

\* the number of elements of the sequence q that are in the set S
CountIn(q, S) == Cardinality({i \in 1..Len(q) : q[i] \in S})

\* the integer r with r * r = n, for the vectors considered, whose norms
\* are whole numbers
Sqrt(n) == CHOOSE r \in 0..n : r * r = n

RECURSIVE DotUpTo(_, _, _)
DotUpTo(v, w, i) == IF i = 0 THEN 0 ELSE DotUpTo(v, w, i - 1) + v[i] * w[i]

\* np.dot of two vectors of one length
Dot(v, w) == DotUpTo(v, w, Len(v))

\* max(0.0, min(1.0, dot / (norm1 * norm2))), 0.0 for an empty vector, for
\* vectors of two lengths and for a zero norm
cosine_similarity(vec1, vec2) ==
    LET Similarity(dot, norm1, norm2) ==
            IF norm1 = 0 \/ norm2 = 0 THEN F(0)
            ELSE PyMax(F(0), PyMin(F(1), Rat(dot, norm1 * norm2)))
    IN  IF Len(vec1) = 0 \/ Len(vec2) = 0 \/ Len(vec1) # Len(vec2) THEN F(0)
        ELSE Similarity(Dot(vec1, vec2), Sqrt(Dot(vec1, vec1)), Sqrt(Dot(vec2, vec2)))

\* a score that grows with the age: the age as a fraction of the period
staleness(self, document, clock) ==
    LET StaleAt(days) ==
            IF days.some THEN Rat(days.t, self.recency_period_days) ELSE F(1)
    IN  StaleAt(weight_days(document, clock))

\* _calculate_temporal_relevance: the recency of the document's date, and
\* 1.0 for any exception (an upload date of None)
calculate_temporal_relevance(self, document, clock) ==
    LET TemporalAt(days) == IF days.some THEN recency_of(self, days.t) ELSE F(1)
    IN  IF ~self.recency_weighting_enabled THEN F(1)
        ELSE TemporalAt(weight_days(document, clock))

\* min(1.0, type_weight / 2.0)
calculate_domain_relevance(self, document) ==
    PyMin(F(1), FDiv(type_weight_of(self, Lower(document.document_type)), F(2)))

\* _calculate_content_quality, counted in tenths
calculate_content_quality(chunk, query) ==
    LET \* len(chunk.strip()) >= 50, >= 20
        LengthPart(chunk_length) ==
            IF chunk_length >= 50 THEN 3 ELSE IF chunk_length >= 20 THEN 1 ELSE 0
        \* two, one sentence of more than 10 characters
        SentencePart(complete_sentences) ==
            IF complete_sentences >= 2 THEN 3
            ELSE IF complete_sentences >= 1 THEN 2 ELSE 0
        CompleteSentences(sentences) ==
            Cardinality({i \in 1..Len(sentences) : Len(Strip(sentences[i])) > 10})
        \* 0.05 <= hits / total <= 0.3, any other density above 0
        DensityOf(hits, total) ==
            IF total = 0 THEN 0
            ELSE IF 5 * total <= 100 * hits /\ 10 * hits <= 3 * total THEN 4
            ELSE IF hits > 0 THEN 2 ELSE 0
        DensityPart(chunk_words, query_words) ==
            DensityOf(CountIn(chunk_words, query_words), Len(chunk_words))
        QualityOf(stripped) ==
            IF Len(stripped) = 0 THEN F(0)
            ELSE PyMin(F(1),
                       Rat(LengthPart(Len(stripped))
                             + SentencePart(CompleteSentences(SplitSentences(chunk)))
                             + DensityPart(Words(Lower(chunk)),
                                           SeqToSet(Words(Lower(query)))),
                           10))
    IN  QualityOf(Strip(chunk))

\* _calculate_frequency_score: matches / (len(query_words) * 3), at most 1.0
calculate_frequency_score(chunk, query) ==
    LET \* the query words of more than 2 characters, lowered
        LongWords(qw) == {Lower(qw[i]) : i \in {j \in 1..Len(qw) : Len(qw[j]) > 2}}
        LowerAll(q) == [i \in 1..Len(q) |-> Lower(q[i])]
        FrequencyOf(query_words, chunk_words) ==
            IF query_words = {} \/ Len(chunk_words) = 0 THEN F(0)
            ELSE PyMin(F(1), Rat(CountIn(chunk_words, query_words),
                                 Cardinality(query_words) * 3))
    IN  IF Len(chunk) = 0 \/ Len(query) = 0 THEN F(0)
        ELSE FrequencyOf(LongWords(Words(query)), LowerAll(Words(chunk)))

\* _calculate_enhanced_relevance: 0.40, 0.25, 0.20, 0.10 and 0.05 of the
\* five scores
calculate_enhanced_relevance(self, query_embedding, chunk_embedding, document, chunk, query, clock) ==
    LET Scores(semantic_score, temporal_score, domain_score, content_score, frequency_score) ==
            [total_score |->
                FAdd(FAdd(FAdd(FAdd(FMul(semantic_score, Rat(40, 100)),
                                    FMul(temporal_score, Rat(25, 100))),
                               FMul(domain_score, Rat(20, 100))),
                          FMul(content_score, Rat(10, 100))),
                     FMul(frequency_score, Rat(5, 100))),
             semantic_score |-> semantic_score,
             temporal_score |-> temporal_score,
             domain_score |-> domain_score,
             content_score |-> content_score,
             frequency_score |-> frequency_score]
    IN  Scores(cosine_similarity(query_embedding, chunk_embedding),
               calculate_temporal_relevance(self, document, clock),
               calculate_domain_relevance(self, document),
               calculate_content_quality(chunk, query),
               calculate_frequency_score(chunk, query))

-----------------------------------------------------------------------------
(* Inputs: environments, clock and documents                               *)

\* at most this many environment variables are set at once
MaxOverrides == 2

\* the settings tried for each variable
EnvValues(name) ==
    CASE name = "DOCUMENT_BASE_WEIGHT" -> {"0.5", "0", "nan"}
      [] name = "DOCUMENT_RECENCY_PERIOD_DAYS" -> {"100", "-5", "1.5"}
      [] name = "DOCUMENT_MIN_WEIGHT_MULTIPLIER" -> {"0.5", "1.5", "nan"}
      [] name = "DOCUMENT_RECENCY_WEIGHTING_ENABLED" -> {"False"}
      [] name = "CV_WEIGHT_MULTIPLIER" -> {"0", "abc"}
      [] name = "COVER_LETTER_WEIGHT_MULTIPLIER" -> {}
      [] name = "LINKEDIN_WEIGHT_MULTIPLIER" -> {"-1"}
      [] name = "OTHER_DOCUMENT_WEIGHT_MULTIPLIER" -> {"3.0", "nan"}

\* the environments that set at most MaxOverrides variables
Environments ==
    LET EnvStrings == UNION {EnvValues(name) : name \in EnvNames}
        EnvironmentsOver(S) ==
            {[name \in EnvNames |-> IF name \in S THEN Set(g[name]) ELSE Unset] :
                g \in {h \in [S -> EnvStrings] : \A name \in S : h[name] \in EnvValues(name)}}
    IN  UNION {EnvironmentsOver(S) :
                  S \in {T \in SUBSET EnvNames : Cardinality(T) <= MaxOverrides}}

DefaultEnviron == [name \in EnvNames |-> Unset]

\* the clock: 2024-01-20, one tick after midnight
Now0 == DateTime(2024, 1, 20) + 1

DaysAgo(k) == Some(Now0 - k * TicksPerDay)

Doc(id, filename, document_type, content, uploaded_at, manual_weight) ==
    [id |-> id, filename |-> filename, document_type |-> document_type,
     content |-> content, uploaded_at |-> uploaded_at, manual_weight |-> manual_weight]

\* documents dated by their upload alone, by their filename, by their content
WeightDocuments ==
    {Doc(1, "test_cv.pdf", t, "Sample content for testing", u, k) :
        t \in {"cv", "Cover_Letter", "linkedin", "other", "profile_import"},
        u \in {DaysAgo(0), DaysAgo(30), DaysAgo(300), DaysAgo(400),
               Some(Now0 + 1), None},
        k \in {F(1), F(2), Rat(1, 2)}}
    \cup
    {Doc(1, f, t, c, DaysAgo(30), k) :
        f \in {"2024-01-10_CV_Acme.pdf", "2025-06-01_CV.pdf", "01/05/2020_CV.pdf"},
        t \in {"cv", "other"},
        c \in {"Sample content for testing", "Started role in 2019-03-01..."},
        k \in {F(1), F(2)}}
    \cup
    {Doc(1, "2024-13-45_CV.pdf", t, c, u, k) :
        t \in {"cv", "other"},
        c \in {"Started role in 2019-03-01...", "Signed 25-12-2023 in Perth",
               "Due 2030/1/1, ref 2024-13-45"},
        u \in {DaysAgo(30), None},
        k \in {F(1), F(2)}}

ScoreDocuments ==
    {Doc(1, "test_cv.pdf", "cv", "Sample content for testing", DaysAgo(30), F(1)),
     Doc(1, "test_cv.pdf", "cv", "Sample content for testing", Some(Now0 + 1), F(1)),
     Doc(1, "2025-06-01_CV.pdf", "other", "Sample content for testing", DaysAgo(30), F(1)),
     Doc(1, "notes.txt", "profile_import", "Started role in 2019-03-01...", None, F(1)),
     Doc(1, "notes.txt", "cv", "Sample content for testing", None, F(1))}

\* the arguments of one scoring call: every document with every pair of
\* embeddings, and every chunk with every query
ScoreInputs ==
    LET QueryVectors == {<< >>, <<0, 0>>, <<1, 0>>}
        ChunkVectors == {<< >>, <<0, 0>>, <<1, 0>>, <<3, 4>>, <<-1, 0>>, <<1, 0, 0>>}
        ScoreChunks ==
            {"", "   ", "data scientist",
             "Data scientist with ten years of experience. Built forecasting models!"}
        ScoreQueries == {"", "data scientist role"}
    IN  {[document |-> document, chunk |-> "data scientist",
          query |-> "data scientist role", query_embedding |-> qe, chunk_embedding |-> ce] :
            document \in ScoreDocuments, qe \in QueryVectors, ce \in ChunkVectors}
        \cup
        {[document |-> document, chunk |-> chunk, query |-> query,
          query_embedding |-> <<1, 0>>, chunk_embedding |-> <<3, 4>>] :
            document \in ScoreDocuments, chunk \in ScoreChunks, query \in ScoreQueries}

-----------------------------------------------------------------------------
(* The service's pure operations, each applied once to inputs drawn at the  *)
(* call.                                                                    *)

NoCall == [op |-> "none"]

NoRet == [exc |-> "", val |-> ""]

NoThreads == << >>

Init ==
    /\ environ \in Environments
    /\ svc = RAGService(environ, TRUE)
    /\ now = Now0
    /\ call = NoCall
    /\ ret = NoRet
    /\ embedding_cache = << >>
    /\ history = << >>
    /\ threads = NoThreads
    /\ documents = << >>

CalcWeight ==
    /\ call = NoCall
    /\ \E document \in WeightDocuments :
          /\ call' = [op |-> "calculate_document_weight", document |-> document]
          /\ ret' = calculate_document_weight(svc, document, now)
    /\ UNCHANGED <<environ, svc, now, embedding_cache, history, threads, documents>>

EnhancedRelevance ==
    /\ call = NoCall
    /\ \E in \in ScoreInputs :
          /\ call' = [op |-> "_calculate_enhanced_relevance", document |-> in.document,
                      chunk |-> in.chunk, query |-> in.query,
                      query_embedding |-> in.query_embedding,
                      chunk_embedding |-> in.chunk_embedding]
          /\ ret' = Returned(calculate_enhanced_relevance(svc, in.query_embedding,
                                 in.chunk_embedding, in.document, in.chunk, in.query, now))
    /\ UNCHANGED <<environ, svc, now, embedding_cache, history, threads, documents>>

Next == CalcWeight \/ EnhancedRelevance

Spec == Init /\ [][Next]_wvars

-----------------------------------------------------------------------------
(* Claims on document weight and scoring                                   *)

\* the same float: equal numbers, or both not a number
SameFloat(a, b) == (a.nan /\ b.nan) \/ FEq(a, b)

\* C1: for any document and any k > 0, the weight of the document with
\* manual_weight = k is k times the weight of the same document with
\* manual_weight = 1.0 (same clock and configuration).
C1_ManualOverrideLinear ==
    (call.op = "calculate_document_weight" /\ ret.exc = "") =>
        SameFloat(ret.val,
                  FMul(call.document.manual_weight,
                       calculate_document_weight(
                           svc, [call.document EXCEPT !.manual_weight = F(1)], now).val))

\* C2: for every document with an upload date and every configuration that
\* __init__ accepts or repairs, calculate_document_weight returns a value
\* strictly greater than 0.
C2_WeightPositive ==
    (call.op = "calculate_document_weight" /\ ret.exc = "") => FGt(ret.val, F(0))

InUnit(x) == FGe(x, F(0)) /\ FLe(x, F(1))

\* no setting of the configuration is float("nan")
FiniteConfig(self) ==
    /\ ~self.base_weight.nan
    /\ ~self.min_weight_multiplier.nan
    /\ \A k \in TypeKeys : ~self.document_type_weights[k].nan

\* C3: every sub-score returned by _calculate_enhanced_relevance and its
\* total_score lie in [0, 1], whatever the query, chunk, embeddings and
\* owning document; stated for the configurations of finite numbers, where
\* it fails already.
C3_ScoresInUnitInterval ==
    (call.op = "_calculate_enhanced_relevance" /\ FiniteConfig(svc)) =>
        /\ InUnit(ret.val.semantic_score)
        /\ InUnit(ret.val.temporal_score)
        /\ InUnit(ret.val.domain_score)
        /\ InUnit(ret.val.content_score)
        /\ InUnit(ret.val.frequency_score)
        /\ InUnit(ret.val.total_score)

\* the document of the call has no date at all, so that the subtraction of
\* _calculate_temporal_relevance raises TypeError
TemporalFailed ==
    /\ call.op = "_calculate_enhanced_relevance"
    /\ svc.recency_weighting_enabled
    /\ FiniteConfig(svc)
    /\ ~weight_days(call.document, now).some

\* C21: if the computation of any one sub-score (semantic, temporal, domain,
\* content quality, lexical) fails, that sub-score is reported as 0, the
\* composite is still the 0.40/0.25/0.20/0.10/0.05 weighted sum with that
\* term at 0, and the scoring call does not abort.
C21_FailedSubScoreIsZero ==
    TemporalFailed =>
        /\ ret.exc = ""
        /\ FEq(ret.val.temporal_score, F(0))
        /\ SameFloat(ret.val.total_score,
                     FAdd(FAdd(FAdd(FMul(ret.val.semantic_score, Rat(40, 100)),
                                    FMul(ret.val.domain_score, Rat(20, 100))),
                               FMul(ret.val.content_score, Rat(10, 100))),
                          FMul(ret.val.frequency_score, Rat(5, 100))))

\* C22: the lexical (frequency) sub-score equals the fraction of the
\* distinct query terms longer than 2 characters that occur among the
\* chunk's words, capped at 1.0; a chunk that contains every such query
\* term scores 1.0 and repeating a term in the chunk does not change the
\* score.
C22_FrequencyIsFractionOfTerms ==
    LET QueryTerms(words) ==
            {Lower(words[i]) : i \in {j \in 1..Len(words) : Len(words[j]) > 2}}
        ChunkTerms(words) == {Lower(words[i]) : i \in 1..Len(words)}
        Fraction(query_terms, chunk_terms) ==
            Rat(Cardinality(query_terms \cap chunk_terms), Cardinality(query_terms))
        FractionOf(query_terms, chunk_terms) ==
            query_terms # {} =>
                FEq(ret.val.frequency_score, Fraction(query_terms, chunk_terms))
    IN  call.op = "_calculate_enhanced_relevance" =>
            FractionOf(QueryTerms(Words(call.query)), ChunkTerms(Words(call.chunk)))

\* C23: for every valid configuration of the per-type weight multipliers,
\* the domain sub-score of a document equals its type weight divided by the
\* largest configured type weight.
C23_DomainNormalizedByMax ==
    LET Largest(weights) ==
            weights[CHOOSE k \in TypeKeys : \A j \in TypeKeys : FGe(weights[k], weights[j])]
        \* every multiplier of the environment is a positive number
        ValidTypeSetting(s) == FloatParses(s) /\ FGt(PyFloat(s), F(0))
        ValidTypeWeights ==
            \A k \in TypeKeys :
                ValidTypeSetting(getenv(environ, TypeEnvName(k), TypeDefaultStr(k)))
    IN  (/\ call.op = "_calculate_enhanced_relevance"
         /\ FiniteConfig(svc) /\ ValidTypeWeights) =>
            FEq(ret.val.domain_score,
                FDiv(type_weight_of(svc, Lower(call.document.document_type)),
                     Largest(svc.document_type_weights)))

\* C25: RAGService construction never fails on an invalid numeric override,
\* and each invalid setting (non-numeric or non-positive base weight,
\* recency period or per-type weight; min multiplier outside (0, 1]) is
\* replaced by that setting's own documented default: 1.0, 365, 0.1, and
\* cv 2.0 / cover_letter 1.8 / linkedin 1.2 / other 0.8.
C25_InvalidSettingTakesOwnDefault ==
    LET InvalidFloat(s) == ~FloatParses(s) \/ FLe(PyFloat(s), F(0))
        InvalidFraction(s) == InvalidFloat(s) \/ FGt(PyFloat(s), F(1))
        InvalidInt(s) == ~IntParses(s) \/ PyInt(s) <= 0
        TypeSetting(k) == getenv(environ, TypeEnvName(k), TypeDefaultStr(k))
    IN  /\ InvalidFloat(getenv(environ, "DOCUMENT_BASE_WEIGHT", "1.0")) =>
               FEq(svc.base_weight, F(1))
        /\ InvalidInt(getenv(environ, "DOCUMENT_RECENCY_PERIOD_DAYS", "365")) =>
               svc.recency_period_days = 365
        /\ InvalidFraction(getenv(environ, "DOCUMENT_MIN_WEIGHT_MULTIPLIER", "0.1")) =>
               FEq(svc.min_weight_multiplier, Rat(1, 10))
        /\ \A k \in TypeKeys :
               InvalidFloat(TypeSetting(k)) =>
                   FEq(svc.document_type_weights[k], default_type_weights[k])

-----------------------------------------------------------------------------
(* RAGService._embedding_cache and create_embeddings                       *)

\* the size limit of the cache (the program's value is 1000)
max_cache_size == 2

\* hashlib.md5(text.encode()).hexdigest(): one key for each text
md5_hexdigest(text) == "md5(" \o text \o ")"

\* self.embedding_model.encode(text).tolist(): a fixed function of the text
\* into the vectors the model produces; a text that starts with "#" stands
\* for one that the model yields no vector for, the case that 'if embedding:'
\* tests in process_document and find_relevant_chunks
Encode(text) ==
    LET EmbeddingSpace == << <<1, 0>>, <<0, 1>>, <<3, 4>>, <<4, 3>> >>
    IN  IF Len(text) > 0 /\ Ch(text, 1) = "#" THEN << >>
        ELSE EmbeddingSpace[(Len(text) % Len(EmbeddingSpace)) + 1]

\* a dict is a sequence of entries in insertion order
DictKeys(cache) == {cache[i].key : i \in 1..Len(cache)}

\* cache[key]
DictGet(cache, key) == cache[CHOOSE i \in 1..Len(cache) : cache[i].key = key].embedding

\* cache[key] = embedding: a key already present keeps its place
DictSet(cache, key, embedding) ==
    IF key \in DictKeys(cache)
    THEN [i \in 1..Len(cache) |->
             IF cache[i].key = key THEN [key |-> key, embedding |-> embedding]
             ELSE cache[i]]
    ELSE Append(cache, [key |-> key, embedding |-> embedding])

\* del cache[key], for a key that is present
DictDel(cache, key) ==
    [i \in 1..(Len(cache) - 1) |->
        IF i < (CHOOSE j \in 1..Len(cache) : cache[j].key = key) THEN cache[i]
        ELSE cache[i + 1]]

\* the key inserted last
newest_key(cache) == cache[Len(cache)].key

\* next(iter(cache)), for a cache that is not empty
oldest_key(cache) == cache[1].key

\* a limit tested with > where the code tests with >=
CacheOverFull(cache) == Len(cache) > max_cache_size

\* len(RAGService._embedding_cache) >= self._max_cache_size
CacheFull(cache) == Len(cache) >= max_cache_size

\* create_embeddings run on its own; fails tells whether the model raises.
\* The outcome is the cache it leaves, whether it invoked the model, and
\* what it returned or raised
create_embeddings(self, cache, text, fails) ==
    LET Outcome(after, encoded, exc, val) ==
            [cache |-> after, encoded |-> encoded, exc |-> exc, val |-> val]
        Hit(key) == Outcome(cache, FALSE, "", DictGet(cache, key))
        \* lines 99 to 102
        Evicted ==
            IF CacheFull(cache) THEN DictDel(cache, oldest_key(cache)) ELSE cache
        \* lines 104 and 105
        Inserted(after, key, embedding) ==
            Outcome(DictSet(after, key, embedding), TRUE, "", embedding)
        \* the try block; any exception of the model becomes EmbeddingError
        Miss ==
            IF fails THEN Outcome(cache, TRUE, "EmbeddingError", << >>)
            ELSE Inserted(Evicted, md5_hexdigest(text), Encode(text))
    IN  IF ~self.embedding_model \/ Len(Strip(text)) = 0
        THEN Outcome(cache, FALSE, "EmbeddingError", << >>)
        ELSE IF md5_hexdigest(text) \in DictKeys(cache) THEN Hit(md5_hexdigest(text))
        ELSE Miss

-----------------------------------------------------------------------------
(* create_embeddings called one call at a time                             *)

CacheTexts == {"a", "bb", "ccc", "", " "}

\* the calls of one behaviour
MaxCalls == max_cache_size + 2

InitCache ==
    /\ environ = DefaultEnviron
    /\ svc \in {RAGService(environ, TRUE), RAGService(environ, FALSE)}
    /\ now = Now0
    /\ call = NoCall
    /\ ret = NoRet
    /\ embedding_cache = << >>
    /\ history = << >>
    /\ threads = NoThreads
    /\ documents = << >>

CreateEmbeddings ==
    LET Called(text, outcome) ==
            /\ embedding_cache' = outcome.cache
            /\ history' = Append(history, [text |-> text, encoded |-> outcome.encoded,
                                           exc |-> outcome.exc, val |-> outcome.val])
            /\ call' = [op |-> "create_embeddings", text |-> text]
            /\ ret' = [exc |-> outcome.exc, val |-> outcome.val]
    IN  /\ Len(history) < MaxCalls
        /\ \E text \in CacheTexts, fails \in BOOLEAN :
              Called(text, create_embeddings(svc, embedding_cache, text, fails))
        /\ UNCHANGED <<environ, svc, now, threads, documents>>

NextCache == CreateEmbeddings

SpecCache == InitCache /\ [][NextCache]_wvars

\* the calls that put a new entry into the cache
Insertions == {i \in 1..Len(history) : history[i].encoded /\ history[i].exc = ""}

\* C6: after any sequence of create_embeddings calls executed one at a
\* time, the cache holds at most _max_cache_size entries.
C6_CacheBounded == Len(embedding_cache) <= max_cache_size

\* a full cache after more insertions than it can hold: an entry was evicted
C6_Witness ==
    Len(embedding_cache) = max_cache_size /\ Cardinality(Insertions) > max_cache_size

\* calls i < j with one text that both returned a vector
SameTextCalls ==
    {p \in (1..Len(history)) \X (1..Len(history)) :
        /\ p[1] < p[2]
        /\ history[p[1]].text = history[p[2]].text
        /\ history[p[1]].exc = "" /\ history[p[2]].exc = ""}

OnceAndSame(p) ==
    /\ ~(history[p[1]].encoded /\ history[p[2]].encoded)
    /\ history[p[1]].val = history[p[2]].val

\* C7 as stated: any two calls with identical text return the same vector
\* and together invoke the embedder at most once, whatever calls happen
\* between them.
C7_EncodedOnce == \A p \in SameTextCalls : OnceAndSame(p)

InsertionsBetween(p) == Cardinality({i \in Insertions : p[1] < i /\ i < p[2]})

\* C7 amended: two calls with identical text, made one at a time, return
\* the same vector and together invoke the embedder at most once provided
\* fewer than _max_cache_size entries were inserted between them.
C7_EncodedOnceUntilEvicted ==
    \A p \in SameTextCalls : InsertionsBetween(p) < max_cache_size => OnceAndSame(p)

\* a text encoded, max_cache_size - 1 other entries inserted, and the text
\* served from the cache
C7_Witness ==
    \E p \in SameTextCalls :
        /\ history[p[1]].encoded /\ ~history[p[2]].encoded
        /\ InsertionsBetween(p) = max_cache_size - 1
        /\ InsertionsBetween(p) > 0

-----------------------------------------------------------------------------
(* create_embeddings called by request threads.  The routes are plain      *)
(* functions, which the server runs on a thread pool; the cache is a class *)
(* attribute that every request's RAGService shares, and no lock guards    *)
(* it.  A thread can be preempted between any two accesses of the cache.   *)

NumThreads == 2

Threads == 1..NumThreads

\* the calls of one thread
MaxThreadCalls == 2

ThreadTexts == {"a", "bb", "ccc", ""}

IdleThread ==
    [pc |-> "idle", text |-> "", text_hash |-> "", embedding |-> << >>,
     oldest_key |-> "", encoded |-> FALSE, inserted |-> FALSE, overlaps |-> {},
     exc |-> "", val |-> << >>, calls |-> 0]

Running(th) == th.pc \notin {"idle", "done"}

\* the thread's record after 'raise'
ThreadRaised(th, e) == [th EXCEPT !.pc = "done", !.exc = e]

\* the thread's record after 'return v'
ThreadReturned(th, v) == [th EXCEPT !.pc = "done", !.val = v]

InitThreads ==
    /\ environ = DefaultEnviron
    /\ svc = RAGService(environ, TRUE)
    /\ now = Now0
    /\ call = NoCall
    /\ ret = NoRet
    /\ embedding_cache = << >>
    /\ history = << >>
    /\ threads = [t \in Threads |-> IdleThread]
    /\ documents = << >>

Step(t, th) ==
    /\ threads' = [threads EXCEPT ![t] = th]
    /\ UNCHANGED <<environ, svc, now, call, ret, history, documents>>

\* a request thread enters create_embeddings: lines 82 to 89, the two
\* guards and the cache key; running is the set of threads inside
\* create_embeddings at this moment
Begin(t) ==
    LET Started(th, text, running) ==
            IF ~svc.embedding_model \/ Len(Strip(text)) = 0
            THEN ThreadRaised([IdleThread EXCEPT !.text = text, !.calls = th.calls + 1],
                              "EmbeddingError")
            ELSE [IdleThread EXCEPT !.pc = "lookup", !.text = text,
                                    !.text_hash = md5_hexdigest(text),
                                    !.overlaps = running, !.calls = th.calls + 1]
    IN  /\ ~Running(threads[t])
        /\ threads[t].calls < MaxThreadCalls
        /\ \E text \in ThreadTexts :
              threads' = [u \in Threads |->
                             IF u = t
                             THEN Started(threads[t], text,
                                          {v \in Threads \ {t} : Running(threads[v])})
                             ELSE [threads[u] EXCEPT !.overlaps = @ \ {t}]]
        /\ UNCHANGED <<environ, svc, now, call, ret, history, documents, embedding_cache>>

\* line 92: if text_hash in RAGService._embedding_cache
Lookup(t) ==
    /\ threads[t].pc = "lookup"
    /\ Step(t, [threads[t] EXCEPT !.pc =
                   IF threads[t].text_hash \in DictKeys(embedding_cache)
                   THEN "return_cached" ELSE "encode"])
    /\ UNCHANGED embedding_cache

\* line 93: return RAGService._embedding_cache[text_hash]; the KeyError of
\* a key deleted since line 92 is raised outside the try block
ReturnCached(t) ==
    /\ threads[t].pc = "return_cached"
    /\ Step(t, IF threads[t].text_hash \in DictKeys(embedding_cache)
               THEN ThreadReturned(threads[t],
                                   DictGet(embedding_cache, threads[t].text_hash))
               ELSE ThreadRaised(threads[t], "KeyError"))
    /\ UNCHANGED embedding_cache

\* line 96: embedding = self.embedding_model.encode(text).tolist()
EncodeText(t) ==
    /\ threads[t].pc = "encode"
    /\ \E fails \in BOOLEAN :
          Step(t, IF fails
                  THEN ThreadRaised([threads[t] EXCEPT !.encoded = TRUE], "EmbeddingError")
                  ELSE [threads[t] EXCEPT !.pc = "check_size", !.encoded = TRUE,
                                          !.embedding = Encode(threads[t].text)])
    /\ UNCHANGED embedding_cache

\* line 99: if len(RAGService._embedding_cache) >= self._max_cache_size
CheckSize(t) ==
    /\ threads[t].pc = "check_size"
    /\ Step(t, [threads[t] EXCEPT !.pc =
                   IF CacheFull(embedding_cache) THEN "pick_oldest" ELSE "insert"])
    /\ UNCHANGED embedding_cache

\* line 101: oldest_key = next(iter(RAGService._embedding_cache)); the
\* StopIteration of an empty cache is caught by 'except Exception'
PickOldest(t) ==
    /\ threads[t].pc = "pick_oldest"
    /\ Step(t, IF Len(embedding_cache) = 0
               THEN ThreadRaised(threads[t], "EmbeddingError")
               ELSE [threads[t] EXCEPT !.pc = "delete",
                                       !.oldest_key = oldest_key(embedding_cache)])
    /\ UNCHANGED embedding_cache

\* line 102: del RAGService._embedding_cache[oldest_key]; the KeyError of a
\* key another thread deleted is caught by 'except Exception'
DeleteOldest(t) ==
    /\ threads[t].pc = "delete"
    /\ IF threads[t].oldest_key \in DictKeys(embedding_cache)
       THEN /\ embedding_cache' = DictDel(embedding_cache, threads[t].oldest_key)
            /\ Step(t, [threads[t] EXCEPT !.pc = "insert"])
       ELSE /\ UNCHANGED embedding_cache
            /\ Step(t, ThreadRaised(threads[t], "EmbeddingError"))

\* lines 104 and 105: the insert and the return
Insert(t) ==
    /\ threads[t].pc = "insert"
    /\ embedding_cache' = DictSet(embedding_cache, threads[t].text_hash,
                                  threads[t].embedding)
    /\ Step(t, ThreadReturned([threads[t] EXCEPT !.inserted = TRUE],
                              threads[t].embedding))

NextThreads ==
    \E t \in Threads :
        \/ Begin(t)
        \/ Lookup(t)
        \/ ReturnCached(t)
        \/ EncodeText(t)
        \/ CheckSize(t)
        \/ PickOldest(t)
        \/ DeleteOldest(t)
        \/ Insert(t)

SpecThreads == InitThreads /\ [][NextThreads]_wvars

\* the calls of t and u ran at the same time
Overlap(t, u) == u \in threads[t].overlaps \/ t \in threads[u].overlaps

\* C8: cache accesses are serialized, so two concurrent misses for the same
\* text cannot both call the embedder and then both perform the insert.
C8_NoDoubleEncode ==
    \A t, u \in Threads :
        (t # u /\ Overlap(t, u) /\ threads[t].text_hash = threads[u].text_hash) =>
            ~(/\ threads[t].encoded /\ threads[t].inserted
              /\ threads[u].encoded /\ threads[u].inserted)

\* C9: under every interleaving of create_embeddings calls of simultaneous
\* requests, the cache never holds more than _max_cache_size entries.
C9_CacheBoundedConcurrent ==
    (\E t \in Threads : threads[t].calls > 0) =>
        Len(embedding_cache) <= max_cache_size

\* C29: under every interleaving of concurrent create_embeddings calls on a
\* full cache, no call fails because of the eviction step: two callers that
\* both pick the same oldest key never make the second deletion raise, so
\* neither call ends in EmbeddingError and neither retrieval request is
\* aborted.
C29_EvictionNeverRaises ==
    \A t \in Threads :
        ~(/\ threads[t].pc = "done"
          /\ threads[t].oldest_key # ""
          /\ threads[t].exc = "EmbeddingError")

-----------------------------------------------------------------------------
(* extract_chunks, process_document and find_relevant_chunks               *)

\* def extract_chunks(self, text, chunk_size=500, overlap=100)
default_chunk_size == 500

default_overlap == 100

\* text[start:]: a slice without its end
SliceToEnd(text, start, end) == SubSeq(text, start + 1, Len(text))

\* text[start:end] for 0 <= start
Slice(text, start, end) ==
    SubSeq(text, start + 1, IF end > Len(text) THEN Len(text) ELSE end)

RECURSIVE ChunksFrom(_, _, _, _)
\* the while loop of extract_chunks
ChunksFrom(text, start, chunk_size, overlap) ==
    IF start >= Len(text) THEN << >>
    ELSE <<Slice(text, start, start + chunk_size)>>
           \o ChunksFrom(text, start + chunk_size - overlap, chunk_size, overlap)

extract_chunks(text, chunk_size, overlap) ==
    IF Len(text) <= chunk_size THEN <<text>>
    ELSE ChunksFrom(text, 0, chunk_size, overlap)

RECURSIVE EmbedChunks(_, _, _, _, _, _)
\* the loop of process_document from chunk i on; the model raises for the
\* texts of failing, and EmbeddingError leaves the loop
EmbedChunks(self, cache, chunks, i, failing, embeddings) ==
    LET \* 'if embedding: embeddings.append(embedding)'
        AppendIfTrue(embedding) ==
            IF Len(embedding) > 0 THEN Append(embeddings, embedding) ELSE embeddings
        EmbedNext(outcome) ==
            IF outcome.exc # ""
            THEN [cache |-> outcome.cache, exc |-> outcome.exc, embeddings |-> embeddings]
            ELSE EmbedChunks(self, outcome.cache, chunks, i + 1, failing,
                             AppendIfTrue(outcome.val))
    IN  IF i > Len(chunks) THEN [cache |-> cache, exc |-> "", embeddings |-> embeddings]
        ELSE EmbedNext(create_embeddings(self, cache, chunks[i], chunks[i] \in failing))

\* process_document: the chunks and their embeddings, the cache it leaves
\* and the exception it let through
process_document(self, cache, document, failing) ==
    LET Processed(chunks, embedded) ==
            [cache |-> embedded.cache, exc |-> embedded.exc, chunks |-> chunks,
             embeddings |-> embedded.embeddings]
        ProcessChunks(chunks) ==
            Processed(chunks, EmbedChunks(self, cache, chunks, 1, failing, << >>))
    IN  IF ~self.embedding_model
        THEN [cache |-> cache, exc |-> "", chunks |-> << >>, embeddings |-> << >>]
        ELSE ProcessChunks(extract_chunks(document.content, default_chunk_size,
                                          default_overlap))

\* the inner loop over zip(processed["chunks"], processed["embeddings"]) and
\* the dict appended to all_results; the embeddings of the list are all
\* non-empty
ChunkResults(self, query_embedding, doc, processed, query, clock) ==
    LET ResultOf(i, chunk, relevance_score) ==
            [chunk |-> chunk,
             relevance_score |-> relevance_score.total_score,
             semantic_score |-> relevance_score.semantic_score,
             temporal_score |-> relevance_score.temporal_score,
             domain_score |-> relevance_score.domain_score,
             document_id |-> doc.id,
             document_type |-> doc.document_type,
             uploaded_at |-> doc.uploaded_at,
             chunk_index |-> i]
    IN  [k \in 1..(IF Len(processed.chunks) < Len(processed.embeddings)
                   THEN Len(processed.chunks) ELSE Len(processed.embeddings)) |->
            ResultOf(k - 1, processed.chunks[k],
                     calculate_enhanced_relevance(self, query_embedding,
                         processed.embeddings[k], doc, processed.chunks[k], query, clock))]

RECURSIVE ProcessAll(_, _, _, _, _, _, _, _, _)
\* the loop over the documents from row i on: process_document is called
\* outside any try block, so its EmbeddingError leaves find_relevant_chunks
ProcessAll(self, cache, docs, i, query_embedding, query, failing, clock, all_results) ==
    LET ProcessedOne(processed) ==
            IF processed.exc # ""
            THEN [cache |-> processed.cache, exc |-> processed.exc,
                  all_results |-> all_results]
            ELSE ProcessAll(self, processed.cache, docs, i + 1, query_embedding, query,
                            failing, clock,
                            all_results \o ChunkResults(self, query_embedding, docs[i],
                                                        processed, query, clock))
    IN  IF i > Len(docs) THEN [cache |-> cache, exc |-> "", all_results |-> all_results]
        ELSE ProcessedOne(process_document(self, cache, docs[i], failing))

InsertAt(sorted, x, k) ==
    SubSeq(sorted, 1, k - 1) \o <<x>> \o SubSeq(sorted, k, Len(sorted))

RECURSIVE SortedAscending(_, _)
SortedAscending(all_results, n) ==
    LET PlaceAscending(sorted, x) ==
            FirstOf({k \in 1..(Len(sorted) + 1) :
                k = Len(sorted) + 1 \/ FGt(sorted[k].relevance_score, x.relevance_score)})
        InsertAscending(sorted, x) == InsertAt(sorted, x, PlaceAscending(sorted, x))
    IN  IF n = 0 THEN << >>
        ELSE InsertAscending(SortedAscending(all_results, n - 1), all_results[n])

RECURSIVE SortedDescending(_, _)
\* the first n results in descending order, each put before the first one
\* that compares less, so after its equals
SortedDescending(all_results, n) ==
    LET PlaceDescending(sorted, x) ==
            FirstOf({k \in 1..(Len(sorted) + 1) :
                k = Len(sorted) + 1 \/ FLt(sorted[k].relevance_score, x.relevance_score)})
        InsertDescending(sorted, x) == InsertAt(sorted, x, PlaceDescending(sorted, x))
    IN  IF n = 0 THEN << >>
        ELSE InsertDescending(SortedDescending(all_results, n - 1), all_results[n])

\* a sort that leaves out reverse=True
sort_ascending(all_results) == SortedAscending(all_results, Len(all_results))

\* all_results.sort(key=lambda x: x["relevance_score"], reverse=True): a
\* stable sort
sort_by_relevance(all_results) == SortedDescending(all_results, Len(all_results))

RECURSIVE OrderedByRecency(_, _)
\* the first n rows ordered by uploaded_at, latest first
OrderedByRecency(table, n) ==
    LET PlaceByRecency(sorted, doc) ==
            FirstOf({k \in 1..(Len(sorted) + 1) :
                k = Len(sorted) + 1 \/ sorted[k].uploaded_at.t < doc.uploaded_at.t})
        InsertByRecency(sorted, doc) == InsertAt(sorted, doc, PlaceByRecency(sorted, doc))
    IN  IF n = 0 THEN << >>
        ELSE InsertByRecency(OrderedByRecency(table, n - 1), table[n])

\* a query without order_by: the rows in the order of their ids
insertion_order(table) == table

\* self.db.query(Document).order_by(Document.uploaded_at.desc()).all(), for
\* rows of distinct upload times
query_documents(table) == OrderedByRecency(table, Len(table))

\* find_relevant_chunks: the cache it leaves, what it returned or raised,
\* and the all_results it had built
find_relevant_chunks(self, cache, table, query, top_k, failing, clock) ==
    LET Found(after, result, all_results) ==
            [cache |-> after, ret |-> result, scored |-> all_results]
        \* all_results[:top_k]
        TopK(sorted) ==
            SubSeq(sorted, 1, IF top_k > Len(sorted) THEN Len(sorted) ELSE top_k)
        \* lines 199 to 201, or the exception the loop let through
        Ranked(processed) ==
            IF processed.exc # ""
            THEN Found(processed.cache, Raised(processed.exc), processed.all_results)
            ELSE Found(processed.cache,
                       Returned(TopK(sort_by_relevance(processed.all_results))),
                       processed.all_results)
        \* lines 161 to 172, then the loop: an exception of
        \* create_embeddings(query) becomes RAGServiceError
        Embedded(outcome) ==
            IF outcome.exc # "" THEN Found(outcome.cache, Raised("RAGServiceError"), << >>)
            ELSE IF Len(outcome.val) = 0 THEN Found(outcome.cache, Returned(<< >>), << >>)
            ELSE Ranked(ProcessAll(self, outcome.cache, query_documents(table), 1,
                                   outcome.val, query, failing, clock, << >>))
    IN  IF ~self.embedding_model THEN Found(cache, Returned(<< >>), << >>)
        ELSE IF Len(Strip(query)) = 0 THEN Found(cache, Raised("RAGServiceError"), << >>)
        ELSE IF top_k <= 0 \/ top_k > 50 THEN Found(cache, Raised("RAGServiceError"), << >>)
        ELSE Embedded(create_embeddings(self, cache, query, query \in failing))

-----------------------------------------------------------------------------
(* find_relevant_chunks over a stored table, called once                   *)

RECURSIVE Repeat(_, _)
Repeat(s, n) == IF n = 0 THEN "" ELSE s \o Repeat(s, n - 1)

\* the rows that can be stored: a row of empty and a row of blank content
\* among them (the batch upload stores whatever the parser extracted), a
\* row of 539 characters, which makes two chunks, and a file uploaded twice
StoredRows ==
    << Doc(1, "2024-01-10_CV_Acme.pdf", "cv",
           "Data scientist with ten years of experience. Built forecasting models!",
           DaysAgo(30), F(1)),
       Doc(2, "letter.pdf", "cover_letter", "   ", DaysAgo(10), F(1)),
       Doc(3, "notes.txt", "other", "role notes", DaysAgo(400), F(1)),
       Doc(4, "linkedin_profile.json", "linkedin",
           Repeat("Led data science and analytics projects across teams ", 10)
               \o "in Perth.",
           DaysAgo(5), F(1)),
       Doc(5, "scan.pdf", "cv", "", DaysAgo(1), F(1)),
       Doc(6, "2024-01-10_CV_Acme.pdf", "cv",
           "Data scientist with ten years of experience. Built forecasting models!",
           DaysAgo(3), F(1)) >>

\* a CV dated 10 days ago by its filename and a cover letter uploaded 300
\* days ago, both containing "data scientist": once with the same content,
\* once with a short CV and a cover letter written for the role; and a row
\* of 540 characters whose first chunk gets no vector
ScenarioRows ==
    << Doc(7, "2024-01-10_CV_Acme.pdf", "cv",
           "Senior data scientist with ten years of experience. Built forecasting models!",
           DaysAgo(30), F(1)),
       Doc(8, "letter_acme.pdf", "cover_letter",
           "Senior data scientist with ten years of experience. Built forecasting models!",
           DaysAgo(300), F(1)),
       Doc(9, "2024-01-10_CV_Acme.pdf", "cv", "data scientist, Acme.", DaysAgo(30), F(1)),
       Doc(10, "letter_acme.pdf", "cover_letter",
           "I am applying for the data scientist role at Acme. "
               \o "I have led analytics teams for eleven years.",
           DaysAgo(300), F(1)),
       Doc(11, "portfolio.pdf", "other",
           "#" \o Repeat("Led data science and analytics projects across teams ", 10)
               \o "in Perth.",
           DaysAgo(20), F(1)) >>

\* the rows of one table at most
MaxDocs == 3

\* the tables of at most MaxDocs stored rows, in the order of their ids,
\* and the three tables of the scenario
Tables ==
    LET Ith(S, i) == CHOOSE x \in S : Cardinality({y \in S : y < x}) = i - 1
        TableOf(ids) == [i \in 1..Cardinality(ids) |-> StoredRows[Ith(ids, i)]]
    IN  {TableOf(ids) :
            ids \in {S \in SUBSET (1..Len(StoredRows)) : Cardinality(S) <= MaxDocs}}
        \cup {<<ScenarioRows[1], ScenarioRows[2]>>, <<ScenarioRows[3], ScenarioRows[4]>>,
              <<ScenarioRows[5]>>}

RetrieveEnvironments ==
    {DefaultEnviron,
     [DefaultEnviron EXCEPT !["DOCUMENT_MIN_WEIGHT_MULTIPLIER"] = Set("nan")],
     [DefaultEnviron EXCEPT !["DOCUMENT_RECENCY_WEIGHTING_ENABLED"] = Set("false")]}

InitRetrieve ==
    /\ environ \in RetrieveEnvironments
    /\ svc \in {RAGService(environ, TRUE), RAGService(environ, FALSE)}
    /\ now = Now0
    /\ call = NoCall
    /\ ret = NoRet
    /\ embedding_cache = << >>
    /\ history = << >>
    /\ threads = NoThreads
    /\ documents \in Tables

\* one call of find_relevant_chunks; failing is the set of texts for which
\* the embedding model raises
FindRelevantChunks ==
    LET Queries == {"", "data scientist role", "role notes"}
        TopKs == {0, 1, 2, 51}
        FailingSets == {{}, {"data scientist role"}, {"role notes"}}
        Retrieved(query, top_k, failing, found) ==
            /\ call' = [op |-> "find_relevant_chunks", query |-> query, top_k |-> top_k,
                        failing |-> failing, scored |-> found.scored]
            /\ ret' = found.ret
            /\ embedding_cache' = found.cache
    IN  /\ call = NoCall
        /\ \E query \in Queries, top_k \in TopKs, failing \in FailingSets :
              Retrieved(query, top_k, failing,
                        find_relevant_chunks(svc, embedding_cache, documents, query,
                                             top_k, failing, now))
        /\ UNCHANGED <<environ, svc, now, history, threads, documents>>

NextRetrieve == FindRelevantChunks

SpecRetrieve == InitRetrieve /\ [][NextRetrieve]_wvars

\* a call with a query and a top_k that pass the guards of lines 155 to 159
ValidCall ==
    /\ call.op = "find_relevant_chunks"
    /\ Len(Strip(call.query)) > 0
    /\ call.top_k \in 1..50

ChunksOf(doc) == extract_chunks(doc.content, default_chunk_size, default_overlap)

\* every chunk of the row can be embedded
Embeddable(doc) ==
    \A k \in 1..Len(ChunksOf(doc)) :
        Len(Strip(ChunksOf(doc)[k])) > 0 /\ ChunksOf(doc)[k] \notin call.failing

\* every chunk of the row was scored
Scored(doc) ==
    \A k \in 1..Len(ChunksOf(doc)) :
        \E j \in 1..Len(call.scored) :
            call.scored[j].document_id = doc.id /\ call.scored[j].chunk_index = k - 1

\* C4: over several stored documents, a failure while chunking, embedding
\* or scoring one document is isolated: the call does not raise, and the
\* chunks of the remaining documents are still scored.  Stated for the
\* default configuration and a model that is loaded and never raises.
C4_FailureIsolated ==
    (/\ ValidCall /\ environ = DefaultEnviron
     /\ svc.embedding_model /\ call.failing = {} /\ Len(documents) >= 2) =>
        /\ ret.exc = ""
        /\ \A i \in 1..Len(documents) : Embeddable(documents[i]) => Scored(documents[i])

\* the embedding model was asked for a text it raises for
EmbedderRaised ==
    \/ call.query \in call.failing
    \/ \E i \in 1..Len(documents) :
          \E k \in 1..Len(ChunksOf(documents[i])) :
              ChunksOf(documents[i])[k] \in call.failing \ {call.query}

\* C5: find_relevant_chunks returns an empty list, without raising, when no
\* documents are stored or the embedding capability is unavailable: the
\* model failed to load, or the embedder raises for the query or a chunk.
\* Stated for the default configuration and tables whose rows all have
\* content.
C5_EmptyWhenUnavailable ==
    (/\ ValidCall /\ environ = DefaultEnviron
     /\ \A i \in 1..Len(documents) : Len(Strip(documents[i].content)) > 0
     /\ (Len(documents) = 0 \/ ~svc.embedding_model
           \/ (svc.embedding_model /\ EmbedderRaised))) =>
        /\ ret.exc = ""
        /\ Len(ret.val) = 0

NotAbove(x, y) == ~FGt(x.relevance_score, y.relevance_score)

\* the scored chunks that the call did not return
LeftOut == SeqToSet(call.scored) \ SeqToSet(ret.val)

\* C10: for a non-empty query and 1 <= top_k <= 50, find_relevant_chunks
\* returns at most top_k results in non-increasing order of
\* relevance_score, and every scored chunk left out has a relevance_score
\* no greater than the lowest score returned.
C10_TopKOrdered ==
    (ValidCall /\ ret.exc = "") =>
        /\ Len(ret.val) <= call.top_k
        /\ SeqToSet(ret.val) \subseteq SeqToSet(call.scored)
        /\ \A i \in 1..(Len(ret.val) - 1) : NotAbove(ret.val[i + 1], ret.val[i])
        /\ \A x \in LeftOut : \A i \in 1..Len(ret.val) : NotAbove(x, ret.val[i])

\* more chunks scored than asked for, in another order than they were
\* scored, and a chunk left out for its lower score
C10_Witness ==
    /\ ValidCall /\ ret.exc = ""
    /\ Len(call.scored) > call.top_k
    /\ Len(ret.val) = call.top_k
    /\ ret.val[1] # call.scored[1]
    /\ \E x \in LeftOut :
          FLt(x.relevance_score, ret.val[Len(ret.val)].relevance_score)

\* two results of different documents with the same relevance_score
Tied(x, y) ==
    /\ x.document_id # y.document_id
    /\ FEq(x.relevance_score, y.relevance_score)

\* C11: when two scored chunks have equal composite score, the chunk of
\* the more recently ingested document (later uploaded_at) comes before the
\* chunk of the older document: in the result, and a chunk left out is not
\* of a later document than a returned chunk it ties with.
C11_TiesNewerFirst ==
    (ValidCall /\ ret.exc = "") =>
        /\ \A i \in 1..Len(ret.val) : \A j \in (i + 1)..Len(ret.val) :
              Tied(ret.val[i], ret.val[j]) =>
                  ret.val[i].uploaded_at.t > ret.val[j].uploaded_at.t
        /\ \A x \in LeftOut : \A i \in 1..Len(ret.val) :
              Tied(x, ret.val[i]) => ret.val[i].uploaded_at.t > x.uploaded_at.t

\* two tied chunks returned, the older document having the smaller id
C11_Witness ==
    /\ ValidCall /\ ret.exc = ""
    /\ \E i \in 1..Len(ret.val) : \E j \in (i + 1)..Len(ret.val) :
          /\ Tied(ret.val[i], ret.val[j])
          /\ ret.val[i].document_id > ret.val[j].document_id

\* sub occurs in s
Contains(s, sub) ==
    \E i \in 1..(Len(s) - Len(sub) + 1) : SubSeq(s, i, i + Len(sub) - 1) = sub

\* the table holds a CV named 2024-01-10_CV_Acme.pdf at row i and a cover
\* letter 300 days old at row j, both containing "data scientist", and the
\* call asks for "data scientist role" under the default configuration
ScenarioCall(i, j) ==
    /\ ValidCall /\ call.query = "data scientist role" /\ call.failing = {}
    /\ environ = DefaultEnviron /\ svc.embedding_model
    /\ Len(documents) = 2 /\ {i, j} = {1, 2}
    /\ documents[i].document_type = "cv"
    /\ documents[i].filename = "2024-01-10_CV_Acme.pdf"
    /\ documents[j].document_type = "cover_letter"
    /\ weight_days(documents[j], now) = Some(300)
    /\ Contains(documents[i].content, "data scientist")
    /\ Contains(documents[j].content, "data scientist")

\* the CV's chunk is ranked first and is all that top_k = 1 returns,
\* labelled cv
CvFirst(cv) ==
    /\ ret.exc = ""
    /\ Len(ret.val) >= 1
    /\ ret.val[1].document_id = cv.id
    /\ ret.val[1].document_type = "cv"
    /\ ret.val[1].chunk = cv.content
    /\ call.top_k = 1 => Len(ret.val) = 1

\* C19 as stated: given a CV dated 10 days ago through its filename and a
\* cover letter dated 300 days ago, both containing the literal phrase
\* "data scientist", the query "data scientist role" ranks the CV chunk
\* above the cover letter chunk, and top_k = 1 returns exactly the CV's
\* fragment, labelled CV.
C19_CvAboveCoverLetter ==
    \A i, j \in 1..2 : ScenarioCall(i, j) => CvFirst(documents[i])

\* C19 amended: the same, for a CV and a cover letter of the same content,
\* whose chunks differ in their temporal and domain scores alone.
C19_CvAboveSameCoverLetter ==
    \A i, j \in 1..2 :
        (ScenarioCall(i, j) /\ documents[i].content = documents[j].content) =>
            CvFirst(documents[i])

\* the scenario with top_k = 1: the CV's fragment alone is returned, the
\* cover letter's was scored and left out
C19_Witness ==
    \E i, j \in 1..2 :
        /\ ScenarioCall(i, j) /\ documents[i].content = documents[j].content
        /\ call.top_k = 1
        /\ CvFirst(documents[i])
        /\ \E x \in LeftOut : x.document_id = documents[j].id

\* C27: an empty or whitespace-only query is never a thrown error:
\* find_relevant_chunks and get_relevant_context complete without raising,
\* and the content-quality and lexical sub-scores computed for an empty
\* query are both 0.
C27_EmptyQueryNeverRaises ==
    (/\ call.op = "find_relevant_chunks" /\ Len(Strip(call.query)) = 0
     /\ call.top_k \in 1..50 /\ svc.embedding_model) =>
        /\ ret.exc = ""
        /\ \A i \in 1..Len(documents) :
              \A k \in 1..Len(ChunksOf(documents[i])) :
                  /\ FEq(calculate_content_quality(ChunksOf(documents[i])[k], call.query),
                         F(0))
                  /\ FEq(calculate_frequency_score(ChunksOf(documents[i])[k], call.query),
                         F(0))

\* the stored row that a scored chunk belongs to
RowOf(result) ==
    documents[CHOOSE i \in 1..Len(documents) : documents[i].id = result.document_id]

\* C28: in find_relevant_chunks every result pairs a chunk with the
\* embedding computed from that same chunk, and its chunk_index is that
\* chunk's zero-based position in extract_chunks' output, even when the
\* embedder yields no (empty) vector for an earlier chunk of the same
\* document.
C28_ChunkPairedWithOwnEmbedding ==
    (ValidCall /\ ret.exc = "") =>
        \A j \in 1..Len(call.scored) :
            /\ call.scored[j].chunk_index < Len(ChunksOf(RowOf(call.scored[j])))
            /\ call.scored[j].chunk =
                   ChunksOf(RowOf(call.scored[j]))[call.scored[j].chunk_index + 1]
            /\ FEq(call.scored[j].semantic_score,
                   cosine_similarity(Encode(call.query), Encode(call.scored[j].chunk)))

-----------------------------------------------------------------------------
(* calculate_document_weight called once on a document of some age, under  *)
(* configurations that differ in the recency settings                      *)

\* the ages in days run from 0 to MaxAge
MaxAge == 400

InitRecency ==
    LET With(name, value) == [DefaultEnviron EXCEPT ![name] = Set(value)]
    IN  /\ environ \in
              {DefaultEnviron,
               [With("DOCUMENT_RECENCY_PERIOD_DAYS", "100")
                   EXCEPT !["DOCUMENT_MIN_WEIGHT_MULTIPLIER"] = Set("0.5")],
               With("DOCUMENT_RECENCY_WEIGHTING_ENABLED", "false"),
               With("DOCUMENT_MIN_WEIGHT_MULTIPLIER", "nan"),
               With("DOCUMENT_BASE_WEIGHT", "nan")}
        /\ svc = RAGService(environ, TRUE)
        /\ now = Now0
        /\ call = NoCall
        /\ ret = NoRet
        /\ embedding_cache = << >>
        /\ history = << >>
        /\ threads = NoThreads
        /\ documents = << >>

\* one call on a document dated by its upload alone, of any age up to
\* MaxAge days or of a hundred years, or on one of the WeightDocuments; the
\* call keeps the days_since_document of lines 471 to 477
CalcAgedWeight ==
    LET AgedDocuments ==
            {Doc(1, "test_cv.pdf", t, "Sample content for testing", DaysAgo(a), F(1)) :
                t \in TypeKeys, a \in (0..MaxAge) \cup {36500}}
    IN  /\ call = NoCall
        /\ \E document \in AgedDocuments \cup WeightDocuments :
              /\ call' = [op |-> "calculate_document_weight", document |-> document,
                          days_since_document |-> weight_days(document, now)]
              /\ ret' = calculate_document_weight(svc, document, now)
        /\ UNCHANGED <<environ, svc, now, embedding_cache, history, threads, documents>>

\* one call of the static method _extract_date_from_content
ExtractDateFromContent ==
    LET Contents ==
            {"", "Sample content for testing", "Started role in 2019-03-01...",
             "Signed 25-12-2023 in Perth", "Due 2030/1/1, ref 2024-13-45",
             "Signed 25-12-2023, due 2030/1/1", "From 2019-03-01 to 25-12-2023",
             "Ref 2024-13-45, signed 12-25-2023", "Invoice 31-02-2023"}
    IN  /\ call = NoCall
        /\ \E content \in Contents :
              /\ call' = [op |-> "_extract_date_from_content", content |-> content]
              /\ ret' = Returned(extract_date_from_content(content))
        /\ UNCHANGED <<environ, svc, now, embedding_cache, history, threads, documents>>

NextRecency == CalcAgedWeight \/ ExtractDateFromContent

SpecRecency == InitRecency /\ [][NextRecency]_wvars

-----------------------------------------------------------------------------
(* Claims on the date, the recency and the type of a document              *)

\* the weight of a document of this type whose age is days_since_document
WeightAtAge(self, document_type, days_since_document) ==
    FMul(FMul(self.base_weight, type_weight_of(self, Lower(document_type))),
         recency_of(self, days_since_document))

\* the first of the three dates that is there
FirstDate(filename_date, content_date, uploaded_at) ==
    IF filename_date.some THEN filename_date
    ELSE IF content_date.some THEN content_date
    ELSE uploaded_at

\* C13: the date used for recency is the date parsed from the filename if
\* one parses, otherwise the date extracted from the content if one is
\* found, otherwise document.uploaded_at; an unparsable filename token or
\* content date never raises but falls through to the next level, and a
\* document with no filename date and content "Started role in
\* 2019-03-01..." is dated 2019-03-01.  Stated for documents that have an
\* upload date, with recency weighting enabled.
C13_DatePrecedence ==
    (/\ call.op = "calculate_document_weight"
     /\ svc.recency_weighting_enabled
     /\ call.document.uploaded_at.some) =>
        /\ ret.exc = ""
        /\ SameFloat(ret.val,
              WeightAtAge(svc, call.document.document_type,
                  DaysBetween(now,
                      FirstDate(extract_date_from_filename(call.document.filename),
                                extract_date_from_content(call.document.content),
                                call.document.uploaded_at).t)))
        /\ (/\ call.document.filename \in {"test_cv.pdf", "2024-13-45_CV.pdf"}
            /\ call.document.content = "Started role in 2019-03-01...") =>
               SameFloat(ret.val,
                   WeightAtAge(svc, call.document.document_type,
                               DaysBetween(now, DateTime(2019, 3, 1))))

\* a filename token that does not parse, a date in the content, and a
\* weight that is not the weight of the upload date
C13_Witness ==
    /\ call.op = "calculate_document_weight"
    /\ environ = DefaultEnviron
    /\ call.document.filename = "2024-13-45_CV.pdf"
    /\ call.document.content = "Signed 25-12-2023 in Perth"
    /\ call.document.uploaded_at = DaysAgo(30)
    /\ ret.exc = ""
    /\ FEq(ret.val, WeightAtAge(svc, call.document.document_type,
                                DaysBetween(now, DateTime(2023, 12, 25))))
    /\ ~FEq(ret.val, WeightAtAge(svc, call.document.document_type, 30))

\* a call of calculate_document_weight that applied a recency multiplier
AgedCall ==
    /\ call.op = "calculate_document_weight"
    /\ "days_since_document" \in DOMAIN call
    /\ call.days_since_document.some
    /\ svc.recency_weighting_enabled

\* the recency multiplier of line 478 in the call
AppliedRecency == recency_of(svc, call.days_since_document.t)

\* recency_period_days * (1 - min_weight_multiplier)
FloorAge(self) ==
    FMul(F(self.recency_period_days), FSub(F(1), self.min_weight_multiplier))

\* C15: for every document age, however large, the recency multiplier
\* applied by calculate_document_weight is never below
\* min_weight_multiplier, and it equals min_weight_multiplier for every age
\* of at least recency_period_days * (1 - min_weight_multiplier) days.
C15_RecencyFloor ==
    AgedCall =>
        /\ ret.exc = ""
        /\ SameFloat(ret.val,
              FMul(FMul(svc.base_weight,
                        type_weight_of(svc, Lower(call.document.document_type))),
                   AppliedRecency))
        /\ ~FLt(AppliedRecency, svc.min_weight_multiplier)
        /\ FGe(F(call.days_since_document.t), FloorAge(svc)) =>
               SameFloat(AppliedRecency, svc.min_weight_multiplier)

\* a document of a hundred years at the floor, under a configuration whose
\* floor is a number
C15_Witness ==
    /\ AgedCall
    /\ call.days_since_document.t = 36500
    /\ FEq(AppliedRecency, svc.min_weight_multiplier)
    /\ FGt(ret.val, F(0))

\* C16: the document age is floored at 0, so the recency multiplier never
\* exceeds 1: a document whose effective date is later than the current
\* time gets the recency multiplier of a document dated now, 1.0.  Stated
\* for the configurations of finite numbers, where it fails already.
C16_AgeFlooredAtZero ==
    (AgedCall /\ FiniteConfig(svc)) =>
        /\ ~FGt(AppliedRecency, F(1))
        /\ call.days_since_document.t < 0 =>
               SameFloat(AppliedRecency, recency_of(svc, 0))

\* the document of the call uploaded one day earlier
OneDayOlder == [call.document EXCEPT !.uploaded_at = Some(@.t - TicksPerDay)]

\* the call is on a document whose age is the age of its upload
DatedByUpload ==
    /\ AgedCall
    /\ call.document.uploaded_at.some
    /\ call.days_since_document.t = DaysBetween(now, call.document.uploaded_at.t)

\* C17: holding document type, manual override and configuration fixed,
\* calculate_document_weight is monotonically non-increasing in the
\* document's age in days, and strictly decreasing between two ages at
\* which the recency multiplier is still above the floor.  Stated day by
\* day, for documents dated by their upload.
C17_WeightMonotoneInAge ==
    DatedByUpload =>
        /\ FLe(calculate_document_weight(svc, OneDayOlder, now).val, ret.val)
        /\ FGt(recency_of(svc, call.days_since_document.t + 1),
               svc.min_weight_multiplier) =>
               FLt(calculate_document_weight(svc, OneDayOlder, now).val, ret.val)

\* the weight of the document of the call, were it of type t
TypedAs(t) ==
    calculate_document_weight(svc, [call.document EXCEPT !.document_type = t], now).val

\* C18: under the default configuration, for documents of equal age and
\* equal manual override, the weights are strictly ordered by type:
\* cv > cover_letter > linkedin > other.
C18_WeightOrderedByType ==
    (/\ call.op = "calculate_document_weight"
     /\ environ = DefaultEnviron
     /\ ret.exc = "") =>
        /\ FGt(TypedAs("cv"), TypedAs("cover_letter"))
        /\ FGt(TypedAs("cover_letter"), TypedAs("linkedin"))
        /\ FGt(TypedAs("linkedin"), TypedAs("other"))
        /\ Lower(call.document.document_type) \in TypeKeys =>
               FEq(ret.val, TypedAs(Lower(call.document.document_type)))

\* a cv at the recency floor, which still outweighs the other types
C18_Witness ==
    /\ call.op = "calculate_document_weight"
    /\ environ = DefaultEnviron
    /\ ret.exc = ""
    /\ call.document.document_type = "cv"
    /\ call.days_since_document = Some(400)
    /\ FGt(ret.val, TypedAs("other"))

\* the date of a year-last match: DD-MM-YYYY if that is a date, else
\* MM-DD-YYYY
YearLastReading(parts) ==
    IF ValidDate(parts[3], parts[2], parts[1])
    THEN Some(DateTime(parts[3], parts[2], parts[1]))
    ELSE MakeDate(parts[3], parts[1], parts[2])

\* the date of the date-like substring that starts earliest, year-first at
\* i1 or year-last at i2 (0 where the pattern has no match); None where
\* there is no such substring or it is no calendar date
EarliestDate(content, i1, i2) ==
    IF i1 > 0 /\ (i2 = 0 \/ i1 < i2)
    THEN MakeDate(GroupsYearFirst(content, i1)[1], GroupsYearFirst(content, i1)[2],
                  GroupsYearFirst(content, i1)[3])
    ELSE IF i2 > 0 THEN YearLastReading(GroupsYearLast(content, i2))
    ELSE None

\* C14: _extract_date_from_content returns the date of the date-like
\* substring that starts earliest in the content, whether that substring is
\* written year-first or year-last.  Stated for the contents whose earliest
\* date-like substring is a calendar date.
C14_EarliestDateInContent ==
    (/\ call.op = "_extract_date_from_content"
     /\ EarliestDate(call.content, SearchYearFirst(call.content),
                     SearchYearLast(call.content)).some) =>
        ret.val = EarliestDate(call.content, SearchYearFirst(call.content),
                               SearchYearLast(call.content))

\* C24: the temporal sub-score that _calculate_temporal_relevance gives a
\* document equals, for every document and every clock value, the recency
\* multiplier that calculate_document_weight applies to the same document
\* (same date precedence, same floor, same behaviour when recency weighting
\* is disabled or a date field is missing).
C24_TemporalIsRecencyMultiplier ==
    call.op = "calculate_document_weight" =>
        /\ ret.exc = ""
        /\ SameFloat(ret.val,
                     FMul(FMul(svc.base_weight,
                               type_weight_of(svc, Lower(call.document.document_type))),
                          calculate_temporal_relevance(svc, call.document, now)))

-----------------------------------------------------------------------------
(* extract_chunks called once on a text, with a chunk size and an overlap  *)

\* the longest text chunked
MaxTextLen == 12

\* the largest chunk_size; the overlaps are smaller than the chunk_size
MaxChunkSize == 4

InitChunks ==
    /\ environ = DefaultEnviron
    /\ svc = RAGService(environ, TRUE)
    /\ now = Now0
    /\ call = NoCall
    /\ ret = NoRet
    /\ embedding_cache = << >>
    /\ history = << >>
    /\ threads = NoThreads
    /\ documents = << >>

\* one call of extract_chunks on a text of distinct characters
ExtractChunks ==
    LET Letters == "abcdefghijklmnopqrstuvwxyz"
    IN  /\ call = NoCall
        /\ \E n \in 0..MaxTextLen, chunk_size \in 1..MaxChunkSize :
              \E overlap \in 0..(chunk_size - 1) :
                  /\ call' = [op |-> "extract_chunks", text |-> SubSeq(Letters, 1, n),
                              chunk_size |-> chunk_size, overlap |-> overlap]
                  /\ ret' = Returned(extract_chunks(SubSeq(Letters, 1, n),
                                                    chunk_size, overlap))
        /\ UNCHANGED <<environ, svc, now, embedding_cache, history, threads, documents>>

NextChunks == ExtractChunks

SpecChunks == InitChunks /\ [][NextChunks]_wvars

RECURSIVE Rejoined(_, _, _)
\* the first chunk whole and each later one of the first n without its
\* first overlap characters (chunk[overlap:]), concatenated in order
Rejoined(chunks, overlap, n) ==
    IF n = 0 THEN ""
    ELSE IF n = 1 THEN chunks[1]
    ELSE Rejoined(chunks, overlap, n - 1)
           \o (IF Len(chunks[n]) <= overlap THEN ""
               ELSE SubSeq(chunks[n], overlap + 1, Len(chunks[n])))

\* C12: for any text and any chunk_size > overlap >= 0, the first chunk of
\* extract_chunks taken whole and every later chunk without its first
\* overlap characters, concatenated in order, reproduce the text exactly.
C12_ChunkRoundTrip ==
    (call.op = "extract_chunks" /\ call.chunk_size > call.overlap) =>
        Rejoined(ret.val, call.overlap, Len(ret.val)) = call.text

\* several overlapping windows, the last one shorter than the chunk_size
C12_Witness ==
    /\ call.op = "extract_chunks"
    /\ call.overlap > 0
    /\ Len(ret.val) >= 3
    /\ Len(ret.val[Len(ret.val)]) < call.chunk_size
    /\ Rejoined(ret.val, call.overlap, Len(ret.val)) = call.text

\* C30: for any text longer than chunk_size and any overlap < chunk_size,
\* every chunk returned by extract_chunks after the first contains at least
\* one character of the text that no earlier chunk covers: chunking stops
\* once the text is exhausted and never emits a final chunk lying wholly
\* inside the preceding chunk.
C30_EveryChunkCoversNewText ==
    LET Covered(chunks, k) ==
            UNION {{Ch(chunks[j], i) : i \in 1..Len(chunks[j])} : j \in 1..(k - 1)}
        CoversNewText(chunks, k) ==
            \E i \in 1..Len(chunks[k]) : Ch(chunks[k], i) \notin Covered(chunks, k)
    IN  (/\ call.op = "extract_chunks" /\ Len(call.text) > call.chunk_size
         /\ call.overlap < call.chunk_size) =>
            \A k \in 2..Len(ret.val) : CoversNewText(ret.val, k)

-----------------------------------------------------------------------------
(* extract_chunks run window by window, for any overlap                    *)

\* the chunks of one call that are kept: of a list that grows beyond, the
\* last MaxWindows
MaxWindows == 13

\* lines 113 to 117: a text no longer than the chunk_size is returned
\* whole, any other enters the loop with start = 0 and no chunks; the call
\* keeps the list it returns in chunks
EnterExtractChunks ==
    LET Letters == "abcdefghijklmnopqrstuvwxyz"
        Entered(text, chunk_size, overlap) ==
            /\ call' = [op |-> "extract_chunks", text |-> text, chunk_size |-> chunk_size,
                        overlap |-> overlap, start |-> 0, passes |-> 0,
                        chunks |-> IF Len(text) <= chunk_size THEN <<text>> ELSE << >>,
                        pc |-> IF Len(text) <= chunk_size THEN "returned" ELSE "while"]
    IN  /\ call = NoCall
        /\ \E n \in 0..MaxTextLen, chunk_size \in 1..MaxChunkSize :
              \E overlap \in 0..(chunk_size + 1) :
                  Entered(SubSeq(Letters, 1, n), chunk_size, overlap)
        /\ UNCHANGED <<environ, svc, now, ret, embedding_cache, history, threads, documents>>

\* lines 118 to 122: one pass of 'while start < len(text)'; text[start:end]
\* counts a negative index from the end of the text.  The passes are
\* counted modulo 2, and a start at or below -(len(text) + chunk_size)
\* stands for every lower one: they all slice "" and leave the next start
\* as low
Window ==
    LET Index(i, n) ==
            IF i < 0 THEN (IF i + n < 0 THEN 0 ELSE i + n) ELSE IF i > n THEN n ELSE i
        Between(text, from, to) == IF from < to THEN SubSeq(text, from + 1, to) ELSE ""
        PySlice(text, start, end) ==
            Between(text, Index(start, Len(text)), Index(end, Len(text)))
        Kept(chunks) == IF Len(chunks) > MaxWindows THEN Tail(chunks) ELSE chunks
        NotBelow(start, lowest) == IF start < lowest THEN lowest ELSE start
    IN  /\ call.op = "extract_chunks"
        /\ call.pc = "while"
        /\ call.start < Len(call.text)
        /\ call' = [call EXCEPT
                       !.chunks = Kept(Append(@, PySlice(call.text, call.start,
                                                         call.start + call.chunk_size))),
                       !.start = NotBelow(call.start + call.chunk_size - call.overlap,
                                          0 - (Len(call.text) + call.chunk_size)),
                       !.passes = (@ + 1) % 2]
        /\ UNCHANGED <<environ, svc, now, ret, embedding_cache, history, threads, documents>>

\* line 124: return chunks, once 'start < len(text)' is false
LeaveExtractChunks ==
    /\ call.op = "extract_chunks"
    /\ call.pc = "while"
    /\ call.start >= Len(call.text)
    /\ call' = [call EXCEPT !.pc = "returned"]
    /\ UNCHANGED <<environ, svc, now, ret, embedding_cache, history, threads, documents>>

NextWindows == EnterExtractChunks \/ Window \/ LeaveExtractChunks

SpecWindows == InitChunks /\ [][NextWindows]_wvars

\* a call that has begun keeps running; each of its steps changes call
FairSpecWindows == SpecWindows /\ WF_call(Window \/ LeaveExtractChunks)

\* C26: extract_chunks terminates for every text and every pair
\* (chunk_size, overlap): with overlap < chunk_size it returns after
\* finitely many windows, and overlap >= chunk_size is handled as a
\* configuration error that falls back to the defaults rather than failing
\* or looping forever.
C26_ExtractChunksTerminates ==
    (call.op = "extract_chunks") ~> (call.op = "extract_chunks" /\ call.pc = "returned")

-----------------------------------------------------------------------------
(* PATCH and GET /documents/{document_id}/weight over a stored table       *)

\* the attributes of the Document class of models.py
DocumentColumns ==
    {"id", "filename", "file_path", "document_type", "content", "parsed_data",
     "uploaded_at", "last_updated", "weight", "experiences"}

\* the requests of one behaviour
MaxRequests == 2

\* update_document_weight: 501 unless Document has the attribute, 404 for
\* an unknown id, 400 for a weight that is not positive, else the row is
\* updated and the answer is 200
UpdateDocumentWeight ==
    LET Rows(document_id) ==
            {r \in 1..Len(documents) : documents[r].id = document_id}
        Answered(document_id, manual_weight, status, table) ==
            /\ history' = Append(history,
                    [method |-> "PATCH", document_id |-> document_id,
                     manual_weight |-> manual_weight, status |-> status])
            /\ documents' = table
        Updated(r, manual_weight) ==
            [documents EXCEPT ![r].manual_weight = manual_weight]
        Patch(document_id, manual_weight) ==
            IF "manual_weight" \notin DocumentColumns
            THEN Answered(document_id, manual_weight, 501, documents)
            ELSE IF Rows(document_id) = {}
            THEN Answered(document_id, manual_weight, 404, documents)
            ELSE IF FLe(manual_weight, F(0))
            THEN Answered(document_id, manual_weight, 400, documents)
            ELSE Answered(document_id, manual_weight, 200,
                          Updated(FirstOf(Rows(document_id)), manual_weight))
    IN  /\ Len(history) < MaxRequests
        /\ \E document_id \in {1, 2}, manual_weight \in {F(0), Rat(5, 2)} :
              Patch(document_id, manual_weight)
        /\ UNCHANGED <<environ, svc, now, call, ret, embedding_cache, threads>>

\* get_document_weight: 501 unless Document has the attribute, 404 for an
\* unknown id, else 200 with the row's manual_weight ('or 1.0') and the
\* weight calculated by a RAGService built for the request
GetDocumentWeight ==
    LET Rows(document_id) ==
            {r \in 1..Len(documents) : documents[r].id = document_id}
        Answered(document_id, status, manual_weight, calculated_weight) ==
            history' = Append(history,
                [method |-> "GET", document_id |-> document_id,
                 manual_weight |-> manual_weight, status |-> status,
                 calculated_weight |-> calculated_weight])
        \* getattr(document, 'manual_weight', 1.0) or 1.0
        ManualWeightOr(x) == IF x = F(0) THEN F(1) ELSE x
        Found(document_id, document, calculated) ==
            IF calculated.exc # ""
            THEN Answered(document_id, 500, NaN, NaN)
            ELSE Answered(document_id, 200, ManualWeightOr(document.manual_weight),
                          calculated.val)
        Get(document_id) ==
            IF "manual_weight" \notin DocumentColumns
            THEN Answered(document_id, 501, NaN, NaN)
            ELSE IF Rows(document_id) = {}
            THEN Answered(document_id, 404, NaN, NaN)
            ELSE Found(document_id, documents[FirstOf(Rows(document_id))],
                       calculate_document_weight(RAGService(environ, TRUE),
                           documents[FirstOf(Rows(document_id))], now))
    IN  /\ Len(history) < MaxRequests
        /\ \E document_id \in {1, 2} : Get(document_id)
        /\ UNCHANGED <<environ, svc, now, call, ret, embedding_cache, threads, documents>>

NextApi == UpdateDocumentWeight \/ GetDocumentWeight

SpecApi == InitRetrieve /\ [][NextApi]_wvars

\* C20: for an existing document, a PATCH /documents/{id}/weight request
\* with a positive manual_weight w succeeds with status 200, and a
\* following GET /documents/{id}/weight reports manual_weight equal to w
\* together with a positive calculated_weight.
C20_PatchThenGet ==
    \A i \in 1..Len(history) :
        (/\ history[i].method = "PATCH"
         /\ FGt(history[i].manual_weight, F(0))
         /\ \E r \in 1..Len(documents) : documents[r].id = history[i].document_id) =>
            /\ history[i].status = 200
            /\ (/\ i < Len(history)
                /\ history[i + 1].method = "GET"
                /\ history[i + 1].document_id = history[i].document_id) =>
                   /\ history[i + 1].status = 200
                   /\ FEq(history[i + 1].manual_weight, history[i].manual_weight)
                   /\ FGt(history[i + 1].calculated_weight, F(0))

=============================================================================
